---- MODULE Spec2Model ----
(***************************************************************************)
(* Illustrator importer (src/src/intents/design_editor/app.tsx): a React   *)
(* component whose async handlers upload the assets of an artboard,        *)
(* resolve its fonts (asking the user when the catalog has no match),      *)
(* compile the layout objects to scene elements, create the page with      *)
(* retry/backoff and patch opacity in an editing session.                  *)
(*                                                                         *)
(* Conventions of the model                                                *)
(*  - a JavaScript string that the code transforms (font names) is a       *)
(*    sequence of one-character strings; file names, refs and tags that    *)
(*    the code only compares are TLA+ strings; "" is the falsy/absent one; *)
(*  - an optional field (textData?, clipShape?, strokeBounds?, opacity,    *)
(*    zIndex) is << >> when absent and <<v>> when present;                 *)
(*  - a JavaScript Map is a sequence of <<key, value>> pairs in insertion  *)
(*    order (the code iterates Maps, so the order is behaviour);           *)
(*  - opacity is in percent (0..100), lengths are integers, path           *)
(*    coordinates are in hundredths (the code rounds to 2 decimals).       *)
(***************************************************************************)
EXTENDS Integers, Sequences, FiniteSets, Bags, TLC

(***************************************************************************)
(* Strings                                                                 *)
(***************************************************************************)
UpperChars == <<"A","B","C","D","E","F","G","H","I","J","K","L","M",
                "N","O","P","Q","R","S","T","U","V","W","X","Y","Z">>

LowerChars == <<"a","b","c","d","e","f","g","h","i","j","k","l","m",
                "n","o","p","q","r","s","t","u","v","w","x","y","z">>

\* String.prototype.toLowerCase on one character
LowerChar(c) ==
  IF \E i \in 1..Len(UpperChars) : UpperChars[i] = c
  THEN LowerChars[CHOOSE i \in 1..Len(UpperChars) : UpperChars[i] = c]
  ELSE c

\* String.prototype.toLowerCase
toLowerCase(s) == [i \in 1..Len(s) |-> LowerChar(s[i])]

\* \s of the regular expressions (the model's names use space only)
IsSpace(c) == c = " "

\* the class [\s\-_]
IsSeparator(c) == IsSpace(c) \/ c = "-" \/ c = "_"

\* the class [\s\-]
IsSpaceOrHyphen(c) == IsSpace(c) \/ c = "-"

RECURSIVE DropSpaces(_)
\* s without its leading whitespace
DropSpaces(s) ==
  IF s # << >> /\ IsSpace(Head(s)) THEN DropSpaces(Tail(s)) ELSE s

RECURSIVE DropSpacesAndHyphens(_)
\* s without its longest prefix in [\s\-]
DropSpacesAndHyphens(s) ==
  IF s # << >> /\ IsSpaceOrHyphen(Head(s)) THEN DropSpacesAndHyphens(Tail(s)) ELSE s

RECURSIVE Reverse(_)
Reverse(s) == IF s = << >> THEN << >> ELSE Reverse(Tail(s)) \o <<Head(s)>>

\* String.prototype.trim
trim(s) == Reverse(DropSpaces(Reverse(DropSpaces(s))))

\* s.replace(/[\s\-_]+/g, "")
RemoveSeparators(s) == SelectSeq(s, LAMBDA c : ~IsSeparator(c))

IsPrefix(t, s) == Len(t) <= Len(s) /\ SubSeq(s, 1, Len(t)) = t

\* String.prototype.includes
includes(s, t) ==
  \E i \in 0..(Len(s) - Len(t)) : SubSeq(s, i + 1, i + Len(t)) = t

\* the alternation of stripStyle's regular expression, in its order
StyleTokens ==
  << <<"b","o","l","d">>, <<"i","t","a","l","i","c">>, <<"l","i","g","h","t">>,
     <<"m","e","d","i","u","m">>, <<"t","h","i","n">>, <<"h","e","a","v","y">>,
     <<"r","e","g","u","l","a","r">>, <<"s","e","m","i","b","o","l","d">>,
     <<"b","l","a","c","k">>, <<"c","o","n","d","e","n","s","e","d">>,
     <<"o","b","l","i","q","u","e">>, <<"b","o","o","k">>, <<"d","e","m","i">>,
     <<"u","l","t","r","a">>, <<"e","x","t","r","a">> , <<"n","a","r","r","o","w">> >>

\* index of the first alternative that matches at the head of s, 0 if none
TokenAt(s) ==
  IF \E i \in 1..Len(StyleTokens) : IsPrefix(StyleTokens[i], s)
  THEN CHOOSE i \in 1..Len(StyleTokens) :
         /\ IsPrefix(StyleTokens[i], s)
         /\ \A j \in 1..(i - 1) : ~IsPrefix(StyleTokens[j], s)
  ELSE 0

RECURSIVE ReplaceStyleTokens(_)
\* s.replace(/[\s\-]*(bold|...|narrow)[\s\-]*/gi, " "): scanning left to
\* right, a match is a greedy run of [\s\-], a token, a greedy run of
\* [\s\-]; it is replaced by one space and the scan goes on after it.
ReplaceStyleTokens(s) ==
  IF s = << >> THEN << >>
  ELSE LET rest == DropSpacesAndHyphens(s)
           k    == TokenAt(rest)
       IN IF k # 0
          THEN <<" ">> \o ReplaceStyleTokens(
                 DropSpacesAndHyphens(
                   SubSeq(rest, Len(StyleTokens[k]) + 1, Len(rest))))
          ELSE <<Head(s)>> \o ReplaceStyleTokens(Tail(s))

\* norm: lowercase, then drop whitespace, hyphens and underscores
norm(s) == RemoveSeparators(toLowerCase(s))

\* stripStyle: "Montserrat Bold Italic" -> "montserrat"
stripStyle(s) == trim(RemoveSeparators(ReplaceStyleTokens(toLowerCase(s))))

(***************************************************************************)
(* JavaScript Map, in insertion order                                      *)
(***************************************************************************)
EmptyMap == << >>

MapHas(m, k) == \E i \in 1..Len(m) : m[i][1] = k

\* Map.prototype.get; "undefined" when the key is absent
MapGet(m, k) ==
  IF MapHas(m, k) THEN m[CHOOSE i \in 1..Len(m) : m[i][1] = k][2]
  ELSE "undefined"

\* Map.prototype.set: an existing key keeps its place
MapSet(m, k, v) ==
  IF MapHas(m, k)
  THEN [i \in 1..Len(m) |-> IF m[i][1] = k THEN <<k, v>> ELSE m[i]]
  ELSE Append(m, <<k, v>>)

MapKeys(m) == {m[i][1] : i \in 1..Len(m)}

MapValues(m) == {m[i][2] : i \in 1..Len(m)}

(***************************************************************************)
(* Font catalog and matching                                               *)
(***************************************************************************)
RECURSIVE BuildFontCaches(_, _, _)
\* preloadFonts' loop over findFonts().fonts: the raw map is keyed by the
\* lowercased name, the normalized map by norm(name) and, when not yet
\* present, by stripStyle(name).
BuildFontCaches(fonts, raw, normalized) ==
  IF fonts = << >> THEN [raw |-> raw, normalized |-> normalized]
  ELSE LET font     == Head(fonts)
           n1       == MapSet(normalized, norm(font.name), font.ref)
           stripped == stripStyle(font.name)
           n2       == IF stripped # << >> /\ ~MapHas(n1, stripped)
                       THEN MapSet(n1, stripped, font.ref) ELSE n1
       IN BuildFontCaches(Tail(fonts),
                          MapSet(raw, toLowerCase(font.name), font.ref), n2)

\* the first iteration of `for (const [canvaLower, ref] of rawC)` that
\* returns, given which entries hit, in Map order; 0 if none
FirstHit(hits) ==
  IF \E i \in 1..Len(hits) : hits[i]
  THEN CHOOSE i \in 1..Len(hits) : hits[i] /\ \A j \in 1..(i - 1) : ~hits[j]
  ELSE 0

\* containment of normalized names of any length
PartialHitAnyLength(normalized, canvaLower) ==
  LET canvaNorm == norm(canvaLower)
  IN includes(normalized, canvaNorm) \/ includes(canvaNorm, normalized)

\* tier 4: normalized names, both at least 4 long, one contains the other
PartialHit(normalized, canvaLower) ==
  LET canvaNorm == norm(canvaLower)
  IN /\ Len(canvaNorm) >= 4 /\ Len(normalized) >= 4
     /\ (includes(normalized, canvaNorm) \/ includes(canvaNorm, normalized))

\* tier 5: the same on style-stripped names
StrippedHit(stripped, canvaLower) ==
  LET canvaStripped == stripStyle(canvaLower)
  IN /\ canvaStripped # << >> /\ Len(canvaStripped) >= 4
     /\ (includes(stripped, canvaStripped) \/ includes(canvaStripped, stripped))

\* findCanvaFont: exact -> normalized -> stripped -> partial -> stripped
\* partial; "undefined" when nothing matches, the family is empty or the
\* catalog is empty
findCanvaFont(fontFamily, rawC, normC) ==
  IF fontFamily = << >> \/ Len(rawC) = 0 THEN "undefined"
  ELSE
    LET lower      == trim(toLowerCase(fontFamily))
        normalized == norm(fontFamily)
        stripped   == stripStyle(fontFamily)
        t4 == FirstHit([i \in 1..Len(rawC) |-> PartialHit(normalized, rawC[i][1])])
        t5 == FirstHit([i \in 1..Len(rawC) |-> StrippedHit(stripped, rawC[i][1])])
    IN IF MapHas(rawC, lower) THEN MapGet(rawC, lower)
       ELSE IF MapHas(normC, normalized) THEN MapGet(normC, normalized)
       ELSE IF stripped # << >> /\ stripped # normalized /\ MapHas(normC, stripped)
            THEN MapGet(normC, stripped)
       ELSE IF t4 # 0 THEN rawC[t4][2]
       ELSE IF stripped # << >> /\ Len(stripped) >= 4 /\ t5 # 0 THEN rawC[t5][2]
       ELSE "undefined"

(***************************************************************************)
(* Shape path synthesis                                                    *)
(***************************************************************************)
\* bezier approximation of a circle, K = KNum / KDen = 0.5523
KNum == 5523

KDen == 10000

\* r2 of the rational n/d (d > 0), in hundredths: Math.round(v * 100)
r2(n, d) == (100 * n) \div d + (IF 2 * ((100 * n) % d) >= d THEN 1 ELSE 0)

Min(a, b) == IF a < b THEN a ELSE b

Cmd(c, args) == [cmd |-> c, args |-> args]

\* twice the radius taken as it comes
UnclampedDiameter(cr, w, h) == 2 * cr

\* twice rr = Math.min(cr, w / 2, h / 2)
ClampedDiameter(cr, w, h) == Min(2 * cr, Min(w, h))

\* a path whose rectangles never have corners
RectWithoutCorners(clipShape, w, h, unit) ==
  IF clipShape = << >> THEN << >>
  ELSE IF clipShape[1].type = "ellipse"
  THEN << Cmd("M", <<r2(w, 2 * unit), 0>>),
          Cmd("C", <<r2(w, unit), 0, r2(w, unit), r2(h, 2 * unit), r2(w, unit), r2(h, 2 * unit)>>),
          Cmd("C", <<r2(w, unit), r2(h, unit), r2(w, 2 * unit), r2(h, unit),
                     r2(w, 2 * unit), r2(h, unit)>>),
          Cmd("C", <<0, r2(h, unit), 0, r2(h, 2 * unit), 0, r2(h, 2 * unit)>>),
          Cmd("C", <<0, 0, r2(w, 2 * unit), 0, r2(w, 2 * unit), 0>>),
          Cmd("Z", << >>) >>
  ELSE IF clipShape[1].type = "rect"
  THEN << Cmd("M", <<0, 0>>), Cmd("L", <<r2(w, unit), 0>>),
          Cmd("L", <<r2(w, unit), r2(h, unit)>>), Cmd("L", <<0, r2(h, unit)>>),
          Cmd("Z", << >>) >>
  ELSE << >>

\* generateShapePath: the path as its commands (the code joins them with
\* spaces), << >> for null. The numbers w, h and cornerRadius are given in
\* 1/unit px (unit 1: whole px); every coordinate is a rational over the
\* denominator D = 2 * KDen * unit, rounded by r2 to hundredths of a px.
generateShapePath(clipShape, w, h, unit) ==
  IF clipShape = << >> THEN << >>
  ELSE
    LET cs == clipShape[1]
        D  == 2 * KDen * unit
    IN IF cs.type = "ellipse" THEN
         LET cxp == r2((KDen + KNum) * w, D)   \* cx + rx*K
             cxm == r2((KDen - KNum) * w, D)   \* cx - rx*K
             cyp == r2((KDen + KNum) * h, D)   \* cy + ry*K
             cym == r2((KDen - KNum) * h, D)   \* cy - ry*K
             cx  == r2(w, 2 * unit)
             cy  == r2(h, 2 * unit)
             W   == r2(w, unit)
             H   == r2(h, unit)
         IN << Cmd("M", <<cx, 0>>),
               Cmd("C", <<cxp, 0, W, cym, W, cy>>),
               Cmd("C", <<W, cyp, cxp, H, cx, H>>),
               Cmd("C", <<cxm, H, 0, cyp, 0, cy>>),
               Cmd("C", <<0, cym, cxm, 0, cx, 0>>),
               Cmd("Z", << >>) >>
       ELSE IF cs.type = "rect" THEN
         LET cr == cs.cornerRadius              \* cornerRadius || 0
             W  == r2(w, unit)
             H  == r2(h, unit)
         IN IF cr <= 0
            THEN << Cmd("M", <<0, 0>>), Cmd("L", <<W, 0>>), Cmd("L", <<W, H>>),
                    Cmd("L", <<0, H>>), Cmd("Z", << >>) >>
            ELSE
              LET rr2 == ClampedDiameter(cr, w, h)          \* 2 * rr
                  rr  == r2(rr2, 2 * unit)
                  wr  == r2(2 * w - rr2, 2 * unit)                   \* w - rr
                  hr  == r2(2 * h - rr2, 2 * unit)                   \* h - rr
                  wrk == r2(2 * KDen * w - (KDen - KNum) * rr2, D)   \* w - rr + kk
                  hrk == r2(2 * KDen * h - (KDen - KNum) * rr2, D)   \* h - rr + kk
                  rk  == r2((KDen - KNum) * rr2, D)                   \* rr - kk
              IN << Cmd("M", <<rr, 0>>),
                    Cmd("L", <<wr, 0>>),
                    Cmd("C", <<wrk, 0, W, rk, W, rr>>),
                    Cmd("L", <<W, hr>>),
                    Cmd("C", <<W, hrk, wrk, H, wr, H>>),
                    Cmd("L", <<rr, H>>),
                    Cmd("C", <<rk, H, 0, hrk, 0, hr>>),
                    Cmd("L", <<0, rr>>),
                    Cmd("C", <<0, rk, rk, 0, rr, 0>>),
                    Cmd("Z", << >>) >>
       ELSE << >>

(***************************************************************************)
(* Layout objects                                                          *)
(***************************************************************************)
\* a LayoutObject with every optional field absent
BaseObject ==
  [ index |-> 0, fileName |-> "", contentFileName |-> "", strokeFileName |-> "",
    strokeBounds |-> << >>, type |-> "png", x |-> 0, y |-> 0,
    width |-> 100, height |-> 100, zIndex |-> << >>, opacity |-> <<100>>,
    textData |-> << >>, textSvgFileName |-> "", clipShape |-> << >>,
    unit |-> 1 ]

\* the key of the sort comparator: a.zIndex ?? a.index
SortKey(o) == IF o.zIndex # << >> THEN o.zIndex[1] ELSE o.index

RECURSIVE InsertBeforeEqual(_, _)
\* o inserted before the elements whose key is not smaller
InsertBeforeEqual(sorted, o) ==
  IF sorted = << >> THEN <<o>>
  ELSE IF SortKey(Head(sorted)) < SortKey(o)
       THEN <<Head(sorted)>> \o InsertBeforeEqual(Tail(sorted), o)
       ELSE <<o>> \o sorted

RECURSIVE InsertSorted(_, _)
\* o inserted after every element whose key is not larger (stable)
InsertSorted(sorted, o) ==
  IF sorted = << >> THEN <<o>>
  ELSE IF SortKey(Head(sorted)) <= SortKey(o)
       THEN <<Head(sorted)>> \o InsertSorted(Tail(sorted), o)
       ELSE <<o>> \o sorted

RECURSIVE SortObjects(_)
\* [...layout.objects].sort((a, b) => (a.zIndex ?? a.index) - (b.zIndex ?? b.index));
\* Array.prototype.sort is stable
SortObjects(objects) ==
  IF objects = << >> THEN << >>
  ELSE InsertSorted(SortObjects(SubSeq(objects, 1, Len(objects) - 1)),
                    objects[Len(objects)])

\* a list that takes every name it is given
ArrayPush(set, x) == Append(set, x)

\* Set.prototype.add on a Set kept in insertion order
SetAdd(set, x) ==
  IF \E i \in 1..Len(set) : set[i] = x THEN set ELSE Append(set, x)

\* the files one object asks to upload, in the order the code adds them
ObjectUploads(o) ==
  (IF o.type = "svg" \/ o.type = "png" THEN <<o.fileName>> ELSE << >>)
  \o (IF o.textSvgFileName # "" THEN <<o.textSvgFileName>> ELSE << >>)
  \o (IF o.type = "clipMask"
      THEN <<o.fileName>>
           \o (IF o.contentFileName # "" THEN <<o.contentFileName>> ELSE << >>)
           \o (IF o.strokeFileName # "" THEN <<o.strokeFileName>> ELSE << >>)
      ELSE << >>)

RECURSIVE AddAll(_, _)
AddAll(set, xs) ==
  IF xs = << >> THEN set ELSE AddAll(SetAdd(set, Head(xs)), Tail(xs))

RECURSIVE ToUpload(_, _)
\* toUpload / uploadList: the de-duplicated file names of the sorted objects
ToUpload(sorted, set) ==
  IF sorted = << >> THEN set
  ELSE ToUpload(Tail(sorted), AddAll(set, ObjectUploads(Head(sorted))))

RECURSIVE FontsWithEmpty(_, _)
\* the families of the text objects, the empty family included
FontsWithEmpty(sorted, set) ==
  IF sorted = << >> THEN set
  ELSE LET o == Head(sorted)
       IN FontsWithEmpty(Tail(sorted),
            IF o.type = "text" /\ o.textData # << >>
            THEN SetAdd(set, o.textData[1].fontFamily) ELSE set)

RECURSIVE FontsOfEveryText(_, _)
\* the non-empty family of every text object, repeated as often as used
FontsOfEveryText(sorted, set) ==
  IF sorted = << >> THEN set
  ELSE LET o == Head(sorted)
       IN FontsOfEveryText(Tail(sorted),
            IF o.type = "text" /\ o.textData # << >>
               /\ o.textData[1].fontFamily # << >>
            THEN Append(set, o.textData[1].fontFamily) ELSE set)

RECURSIVE UniqueFonts(_, _)
\* uniqueFonts: the non-empty families of the text objects that carry
\* textData, in first-use order
UniqueFonts(sorted, set) ==
  IF sorted = << >> THEN set
  ELSE LET o == Head(sorted)
       IN UniqueFonts(Tail(sorted),
            IF o.type = "text" /\ o.textData # << >>
               /\ o.textData[1].fontFamily # << >>
            THEN SetAdd(set, o.textData[1].fontFamily) ELSE set)

(***************************************************************************)
(* Element compilation                                                     *)
(***************************************************************************)
TEXT_WIDTH_PADDING_PERCENT == 115

\* Math.ceil(obj.width * TEXT_WIDTH_PADDING)
PaddedWidth(w) == (w * TEXT_WIDTH_PADDING_PERCENT + 99) \div 100

\* Math.max(1, Math.min(100, Math.round(td.fontSize)))
ClampFontSize(n) == IF n < 1 THEN 1 ELSE IF n > 100 THEN 100 ELSE n

\* FONT_WEIGHT_MAP[td.fontWeight?.toLowerCase()] || "normal"
FontWeight(w) ==
  LET l == toLowerCase(w)
  IN IF l = <<"b","o","l","d">> THEN "bold"
     ELSE IF l = <<"l","i","g","h","t">> THEN "light"
     ELSE IF l = <<"t","h","i","n">> THEN "thin"
     ELSE IF l = <<"m","e","d","i","u","m">> THEN "medium"
     ELSE IF l = <<"s","e","m","i","b","o","l","d">> THEN "semibold"
     ELSE IF l = <<"e","x","t","r","a","l","i","g","h","t">> THEN "extralight"
     ELSE IF l = <<"u","l","t","r","a","b","o","l","d">> THEN "ultrabold"
     ELSE IF l = <<"h","e","a","v","y">> \/ l = <<"b","l","a","c","k">> THEN "heavy"
     ELSE "normal"

\* TEXT_ALIGN_MAP[td.alignment] || "start"
TextAlign(a) ==
  IF a = "center" THEN "center" ELSE IF a = "right" THEN "end"
  ELSE IF a = "justify" THEN "justify" ELSE "start"

\* the ImageRef upload() returns for a file
ImageRefOf(fname) == <<"ImageRef", fname>>

\* the shape element with an image fill (a Canva frame)
FrameElement(o, pathD, contentRef) ==
  [ type |-> "shape", d |-> pathD, dropTarget |-> TRUE, ref |-> contentRef,
    viewBox |-> [width |-> o.width, height |-> o.height, top |-> 0, left |-> 0],
    top |-> o.y, left |-> o.x, width |-> o.width, height |-> o.height ]

ImageElement(ref, top, left, w, h) ==
  [ type |-> "image", ref |-> ref, top |-> top, left |-> left,
    width |-> w, height |-> h ]

\* a group whose frame is offset by the stroke bounds' origin minus the
\* mask's origin
FrameOffsetReversed(o, frame, imageRefs) ==
  LET sb == o.strokeBounds[1]
  IN IF o.strokeFileName # "" /\ MapHas(imageRefs, o.strokeFileName)
        /\ o.strokeBounds # << >>
     THEN [ type |-> "group",
            children |-> << ImageElement(MapGet(imageRefs, o.strokeFileName), 0, 0,
                                         sb.width, sb.height),
                            [frame EXCEPT !.top = sb.y - o.y, !.left = sb.x - o.x] >>,
            top |-> sb.y, left |-> sb.x, width |-> sb.width, height |-> sb.height ]
     ELSE frame

\* the frame, alone or grouped with its stroke/shadow image
FrameWithEffects(o, frame, imageRefs) ==
  LET hasStroke == o.strokeFileName # "" /\ MapHas(imageRefs, o.strokeFileName)
      strokeRef == MapGet(imageRefs, o.strokeFileName)
  IN IF hasStroke /\ o.strokeBounds # << >>
     THEN LET sb == o.strokeBounds[1]
          IN [ type |-> "group",
               children |-> << ImageElement(strokeRef, 0, 0, sb.width, sb.height),
                               [frame EXCEPT !.top = o.y - sb.y, !.left = o.x - sb.x,
                                             !.width = o.width, !.height = o.height] >>,
               top |-> sb.y, left |-> sb.x, width |-> sb.width, height |-> sb.height ]
     ELSE IF hasStroke
     THEN [ type |-> "group",
            children |-> << [frame EXCEPT !.top = 0, !.left = 0],
                            ImageElement(strokeRef, 0, 0, o.width, o.height) >>,
            top |-> o.y, left |-> o.x, width |-> o.width, height |-> o.height ]
     ELSE frame

\* a clipMask branch that emits the fallback image without looking at its
\* reference
ClipMaskFallbackUnchecked(o, imageRefs) ==
  LET contentFile == IF o.contentFileName # "" THEN o.contentFileName ELSE o.fileName
      pathD       == generateShapePath(o.clipShape, o.width, o.height, o.unit)
  IN IF ~MapHas(imageRefs, contentFile) THEN << >>
     ELSE IF pathD # << >>
     THEN << FrameWithEffects(o, FrameElement(o, pathD, MapGet(imageRefs, contentFile)),
                              imageRefs) >>
     ELSE << ImageElement(MapGet(imageRefs, o.fileName), o.y, o.x, o.width, o.height) >>

\* the clipMask branch: << >> when the object is skipped, else <<element>>
CompileClipMask(o, imageRefs) ==
  LET contentFile == IF o.contentFileName # "" THEN o.contentFileName ELSE o.fileName
      pathD       == generateShapePath(o.clipShape, o.width, o.height, o.unit)
  IN IF ~MapHas(imageRefs, contentFile) THEN << >>
     ELSE IF pathD # << >>
     THEN << FrameWithEffects(o, FrameElement(o, pathD, MapGet(imageRefs, contentFile)),
                              imageRefs) >>
     ELSE IF MapHas(imageRefs, o.fileName)
          THEN << ImageElement(MapGet(imageRefs, o.fileName), o.y, o.x, o.width, o.height) >>
          ELSE << >>

EditableText(o, td) ==
  [ type |-> "text", children |-> <<td.content>>, top |-> o.y, left |-> o.x,
    width |-> PaddedWidth(o.width), fontSize |-> ClampFontSize(td.fontSize),
    color |-> IF td.color # "" THEN td.color ELSE "#000000",
    fontWeight |-> FontWeight(td.fontWeight),
    fontStyle |-> IF td.fontStyle = "italic" THEN "italic" ELSE "normal",
    textAlign |-> TextAlign(td.alignment) ]

\* a text branch that emits nothing when it has neither font nor SVG
TextOrNothing(o, imageRefs, resolvedFonts) ==
  LET td         == o.textData[1]
      fontResult == MapGet(resolvedFonts, td.fontFamily)
  IN IF fontResult # "undefined" /\ fontResult # "use_svg"
     THEN << [EditableText(o, td) EXCEPT !.children = <<td.content>>] >>
     ELSE IF o.textSvgFileName # "" /\ MapHas(imageRefs, o.textSvgFileName)
     THEN << ImageElement(MapGet(imageRefs, o.textSvgFileName),
                          o.y, o.x, o.width, o.height) >>
     ELSE << >>

\* a text branch that takes the pre-rendered image whenever it was uploaded
TextImageFirst(o, imageRefs, resolvedFonts) ==
  LET td         == o.textData[1]
      fontResult == MapGet(resolvedFonts, td.fontFamily)
  IN IF o.textSvgFileName # "" /\ MapHas(imageRefs, o.textSvgFileName)
     THEN << ImageElement(MapGet(imageRefs, o.textSvgFileName),
                          o.y, o.x, o.width, o.height) >>
     ELSE IF fontResult # "undefined" /\ fontResult # "use_svg"
     THEN << [fontRef |-> fontResult] @@ EditableText(o, td) >>
     ELSE << EditableText(o, td) >>

\* the text branch: always one element
CompileText(o, imageRefs, resolvedFonts) ==
  LET td         == o.textData[1]
      fontResult == MapGet(resolvedFonts, td.fontFamily)
  IN IF fontResult # "undefined" /\ fontResult # "use_svg"
     THEN << [ type |-> "text", children |-> <<td.content>>, top |-> o.y, left |-> o.x,
               width |-> PaddedWidth(o.width), fontSize |-> ClampFontSize(td.fontSize),
               color |-> IF td.color # "" THEN td.color ELSE "#000000",
               fontWeight |-> FontWeight(td.fontWeight),
               fontStyle |-> IF td.fontStyle = "italic" THEN "italic" ELSE "normal",
               textAlign |-> TextAlign(td.alignment),
               decoration |-> IF td.textDecoration = "underline" THEN "underline" ELSE "none",
               fontRef |-> fontResult ] >>
     ELSE IF o.textSvgFileName # "" /\ MapHas(imageRefs, o.textSvgFileName)
     THEN << ImageElement(MapGet(imageRefs, o.textSvgFileName),
                          o.y, o.x, o.width, o.height) >>
     ELSE << EditableText(o, td) >>

\* an image branch that emits whether or not the file has a ref
ImageWithoutRefCheck(o, imageRefs) ==
  << ImageElement(MapGet(imageRefs, o.fileName), o.y, o.x, o.width, o.height) >>

\* the plain image branch: skipped when the file has no ref
CompileImage(o, imageRefs) ==
  IF ~MapHas(imageRefs, o.fileName) THEN << >>
  ELSE << ImageElement(MapGet(imageRefs, o.fileName), o.y, o.x, o.width, o.height) >>

\* one iteration of the element loop: what it pushes onto elements
CompileObject(o, imageRefs, resolvedFonts) ==
  IF o.type = "clipMask" THEN CompileClipMask(o, imageRefs)
  ELSE IF o.type = "text" /\ o.textData # << >> THEN CompileText(o, imageRefs, resolvedFonts)
  ELSE CompileImage(o, imageRefs)

\* a counter that counts every object, skipped or not
CountEveryObject(elementIdx, emitted) == elementIdx + 1

\* elementIdx after an iteration: elementIdx++ is reached only when the
\* iteration did not `continue`
NextElementIdx(elementIdx, emitted) ==
  IF emitted # << >> THEN elementIdx + 1 ELSE elementIdx

\* an opacityMap that takes the opacity of every object that has one
RecordEveryOpacity(opacityMap, elementIdx, o, emitted) ==
  IF o.opacity # << >>
  THEN Append(opacityMap, [elementIndex |-> elementIdx, opacity |-> o.opacity[1]])
  ELSE opacityMap

\* opacityMap after an iteration that emitted
RecordOpacity(opacityMap, elementIdx, o, emitted) ==
  IF emitted # << >> /\ o.opacity # << >> /\ o.opacity[1] < 100
  THEN Append(opacityMap, [elementIndex |-> elementIdx, opacity |-> o.opacity[1]])
  ELSE opacityMap

(***************************************************************************)
(* Inputs: the folders the user can select and what the host can answer    *)
(***************************************************************************)
\* bounds of the model
MaxProcs == 2

MaxPickers == 2

MaxMissing == 1

\* the folders selected and the imports clicked in one session
MaxFolders == 1

MaxImports == 2

fZed == <<"Z","e","d">>

fZedLower == <<"z","e","d">>


fArial == <<"A","r","i","a","l">>

TextDataOf(family) ==
  [ content |-> "Hello", fontFamily |-> family, fontSize |-> 24,
    fontWeight |-> <<"B","o","l","d">>, fontStyle |-> "normal", color |-> "",
    alignment |-> "left", textDecoration |-> "none" ]

TextObject(family, svg) ==
  [BaseObject EXCEPT !.type = "text", !.fileName = "t.json",
                     !.textData = <<TextDataOf(family)>>, !.textSvgFileName = svg]

PngObject(fname, opacity) ==
  [BaseObject EXCEPT !.type = "png", !.fileName = fname, !.opacity = opacity]

\* objects numbered as the exporter numbers them: index = position, zIndex = index
Numbered(objs) ==
  [i \in 1..Len(objs) |-> [objs[i] EXCEPT !.index = i - 1, !.zIndex = <<i - 1>>]]

LayoutOf(name, objs) ==
  [artboardName |-> name, width |-> 800, height |-> 600, objects |-> Numbered(objs)]

ClipObject(fname, content, stroke, bounds, shape, opacity) ==
  [BaseObject EXCEPT !.type = "clipMask", !.fileName = fname,
                     !.contentFileName = content, !.strokeFileName = stroke,
                     !.strokeBounds = bounds, !.clipShape = shape, !.opacity = opacity,
                     !.x = 20, !.y = 30, !.width = 200, !.height = 200]

\* every sequence of 0..n elements of S
SeqsUpTo(S, n) == UNION {[1..k -> S] : k \in 0..n}

\* the folder of the session-level specification: two artboards, the first
\* with a family the catalog never matches, the second with the same family
\* in another case, a family the Arial catalog matches and an image
SessionLayouts ==
  << LayoutOf("A", <<TextObject(fZed, "")>>),
     LayoutOf("B", <<TextObject(fZedLower, ""), TextObject(fArial, ""),
                     PngObject("a.png", <<50>>)>>) >>

SessionLayoutSets == {SessionLayouts}

\* the objects of the single-import specification: images, texts (matched,
\* unmatched and empty family, with and without a pre-rendered SVG, without
\* textData) and masks (ellipse with stroke bounds, rounded rect with a
\* stroke without bounds, unknown shape)
ObjectPool ==
  { PngObject("a.png", <<50>>),
    [PngObject("b.svg", << >>) EXCEPT !.type = "svg"],
    TextObject(fZed, "t.svg"),
    [TextObject(fArial, "") EXCEPT !.opacity = <<50>>],
    TextObject(<< >>, "t.svg"),
    [BaseObject EXCEPT !.type = "text", !.fileName = "a.png", !.opacity = <<75>>],
    ClipObject("m.png", "c.png", "s.png",
               <<[x |-> 10, y |-> 20, width |-> 220, height |-> 220]>>,
               <<[type |-> "ellipse", cornerRadius |-> 0]>>, <<50>>),
    ClipObject("m.png", "", "s.png", << >>,
               <<[type |-> "rect", cornerRadius |-> 10]>>, <<100>>),
    ClipObject("m.png", "c.png", "", << >>,
               <<[type |-> "unknown", cornerRadius |-> 0]>>, <<25>>) }

MaxObjects == 2

\* the index and zIndex of three objects, in the order the file lists them:
\* all keys distinct, ties between zIndex and index, ties between zIndex,
\* no zIndex with index out of file order, no zIndex and one index for all
PaintKeys ==
  { << [index |-> 0, zIndex |-> <<3>>], [index |-> 1, zIndex |-> <<1>>],
       [index |-> 2, zIndex |-> <<2>>] >>,
    << [index |-> 0, zIndex |-> << >>], [index |-> 1, zIndex |-> <<0>>],
       [index |-> 2, zIndex |-> << >>] >>,
    << [index |-> 0, zIndex |-> <<2>>], [index |-> 1, zIndex |-> <<1>>],
       [index |-> 2, zIndex |-> <<1>>] >>,
    << [index |-> 2, zIndex |-> << >>], [index |-> 1, zIndex |-> << >>],
       [index |-> 0, zIndex |-> << >>] >>,
    << [index |-> 5, zIndex |-> << >>], [index |-> 5, zIndex |-> << >>],
       [index |-> 5, zIndex |-> << >>] >> }

\* three images of three files with the given keys
KeyedImages(keys) ==
  LET objs == << PngObject("a.png", <<50>>),
                 [PngObject("b.svg", << >>) EXCEPT !.type = "svg"],
                 PngObject("m.png", <<100>>) >>
  IN [i \in 1..3 |-> [objs[i] EXCEPT !.index = keys[i].index,
                                     !.zIndex = keys[i].zIndex]]

\* masks: an ellipse of 200x200 at the origin whose stroke image reaches 10
\* beyond it on every side; a mask of unknown shape followed by a mask
\* without clipShape that is its own content
MaskExamples ==
  { << [ClipObject("m.png", "c.png", "s.png",
                   <<[x |-> -10, y |-> -10, width |-> 220, height |-> 220]>>,
                   <<[type |-> "ellipse", cornerRadius |-> 0]>>, <<100>>)
          EXCEPT !.x = 0, !.y = 0] >>,
    << ClipObject("m.png", "c.png", "", << >>,
                  <<[type |-> "unknown", cornerRadius |-> 0]>>, <<25>>),
       ClipObject("f.png", "", "", << >>, << >>, <<50>>) >> }

\* sizes of a mask, in 1/unit px: whole px, and px with fractions
\* (10.125 x 20.375 in eighths, 10.25 x 10.25 and 7.5 x 3.25 in quarters)
ShapeSizes ==
  { [w |-> 100, h |-> 100, unit |-> 1], [w |-> 200, h |-> 100, unit |-> 1],
    [w |-> 1, h |-> 3, unit |-> 1], [w |-> 81, h |-> 163, unit |-> 8],
    [w |-> 41, h |-> 41, unit |-> 4], [w |-> 30, h |-> 13, unit |-> 4] }

\* the clip shapes of a mask of that size: an ellipse, and rectangles with
\* no radius, a negative one, a small one, half the shorter side (rounded
\* down), just over it, the shorter side, five times the width
ClipShapesOf(z) ==
  { <<[type |-> "ellipse", cornerRadius |-> 0]>> }
  \cup { <<[type |-> "rect", cornerRadius |-> cr]>> :
           cr \in {0, -5, 1, Min(z.w, z.h) \div 2, Min(z.w, z.h) \div 2 + 1,
                   Min(z.w, z.h), 5 * z.w} }

ImportLayoutSets ==
  { <<LayoutOf("A", objs)>> : objs \in SeqsUpTo(ObjectPool, MaxObjects) }
  \cup { <<[LayoutOf("A", << >>) EXCEPT !.objects = KeyedImages(keys)]>> :
           keys \in PaintKeys }
  \cup { <<LayoutOf("A", objs)>> : objs \in MaskExamples }


(***************************************************************************)
(* Font names for the matching tiers                                       *)
(***************************************************************************)
\* display names and families, as strings
FontNames ==
  [ ArialUpper |-> <<"A","R","I","A","L">>,
    AriAl |-> <<"A","r","i","-","a","l">>,
    ArialPadded |-> <<"A","r","i","a","l"," ">>,
    ArialBold |-> <<"A","r","i","a","l"," ","B","o","l","d">>,
    ArialItalic |-> <<"A","r","i","a","l"," ","I","t","a","l","i","c">>,
    OpenSans |-> <<"O","p","e","n"," ","S","a","n","s">>,
    OpenSansHyphen |-> <<"O","p","e","n","-","S","a","n","s">>,
    Gotham |-> <<"G","o","t","h","a","m">>,
    Gothamic |-> <<"G","o","t","h","a","m","i","c">>,
    GothamPro |-> <<"G","o","t","h","a","m"," ","P","r","o">>,
    GothamBoldPro |-> <<"G","o","t","h","a","m"," ","B","o","l","d"," ","P","r","o">>,
    GothamLight |-> <<"G","o","t","h","a","m"," ","L","i","g","h","t">>,
    GoLight |-> <<"G","o"," ","L","i","g","h","t">>,
    GoBold |-> <<"G","o"," ","B","o","l","d">>,
    Go |-> <<"G","o">>,
    Bold |-> <<"B","o","l","d">> ]

\* the families a text object can ask for
MatchFamilies ==
  { fArial, fZed, FontNames.ArialPadded, FontNames.ArialBold,
    FontNames.ArialItalic, FontNames.OpenSansHyphen, FontNames.Gotham,
    FontNames.Gothamic, FontNames.GothamBoldPro, FontNames.Go,
    FontNames.GoBold, FontNames.Bold }

\* the catalogs findFonts() can return
MatchCatalogs ==
  { << >>,
    << [name |-> fArial, ref |-> "font:Arial"],
       [name |-> FontNames.OpenSans, ref |-> "font:OpenSans"],
       [name |-> FontNames.Gotham, ref |-> "font:Gotham"] >>,
    << [name |-> FontNames.ArialBold, ref |-> "font:ArialBold"],
       [name |-> fArial, ref |-> "font:Arial"] >>,
    << [name |-> FontNames.ArialBold, ref |-> "font:ArialBold"],
       [name |-> FontNames.GothamLight, ref |-> "font:GothamLight"] >>,
    << [name |-> FontNames.ArialUpper, ref |-> "font:ARIAL"],
       [name |-> FontNames.AriAl, ref |-> "font:Ari-al"] >>,
    << [name |-> FontNames.ArialPadded, ref |-> "font:ArialPadded"],
       [name |-> FontNames.AriAl, ref |-> "font:Ari-al"] >>,
    << [name |-> FontNames.GothamPro, ref |-> "font:GothamPro"],
       [name |-> FontNames.Gotham, ref |-> "font:Gotham"] >>,
    << [name |-> FontNames.Go, ref |-> "font:Go"],
       [name |-> FontNames.GoLight, ref |-> "font:GoLight"] >>,
    << [name |-> FontNames.GoLight, ref |-> "font:GoLight"],
       [name |-> FontNames.GothamLight, ref |-> "font:GothamLight"] >> }


\* what findFonts() can return: nothing, or a catalog that knows Arial
Catalogs == { << >>, <<[name |-> fArial, ref |-> "font:Arial"]>> }

\* what the user can pick in requestFontSelection()
PickerFonts == {"font:Lato"}

\* the file names a list of layouts refers to
ReferencedFiles(ls) ==
  {f \in UNION {{ToUpload(ls[i].objects, << >>)[j] :
                   j \in 1..Len(ToUpload(ls[i].objects, << >>))} : i \in 1..Len(ls)} :
     f # ""}

\* the folders that hold the layouts ls: all the referenced files but at
\* most MaxMissing of them
FolderContents(ls) ==
  {ReferencedFiles(ls) \ m : m \in {x \in SUBSET ReferencedFiles(ls) :
                                      Cardinality(x) <= MaxMissing}}

(***************************************************************************)
(* State                                                                   *)
(***************************************************************************)
VARIABLES
  layouts,             \* useState layouts
  selectedLayoutIndex, \* useState selectedLayoutIndex (1-based here)
  files,               \* the names getFile can find (files / artboardFileMap)
  status,              \* useState status, by kind of message
  isImporting,         \* useState isImporting
  fontCacheRaw,        \* useState fontCacheRaw
  fontCacheNorm,       \* useState fontCacheNorm
  userFontChoices,     \* userFontChoicesRef.current
  pendingFontResolve,  \* useState pendingFontResolve: 0 or the waiting import
  pendingFontName,     \* useState pendingFontName
  pickers,             \* the handlePickFont calls awaiting requestFontSelection()
  proc,                \* the running handleImportLayout / handleImportAll calls
  firstChoice,         \* history: what each family first resolved to since the
                       \* catalog was loaded and the choices were last cleared
  budget               \* history: the folders selected and the imports clicked

vars == << layouts, selectedLayoutIndex, files, status, isImporting, fontCacheRaw,
           fontCacheNorm, userFontChoices, pendingFontResolve, pendingFontName,
           pickers, proc, firstChoice, budget >>

Procs == 1..MaxProcs

\* a slot that runs no handler
IdleProc ==
  [ pc |-> "idle", mode |-> "single", layouts |-> << >>, layoutIndex |-> 0,
    rawC |-> << >>, normC |-> << >>, sorted |-> << >>, uploadList |-> << >>,
    i |-> 0, imageRefs |-> << >>, fontQueue |-> << >>, resolvedFonts |-> << >>,
    elements |-> << >>, elementIdx |-> 0, obj |-> 0, opacityMap |-> << >>,
    att |-> 0, delay |-> 0, manual |-> FALSE,
    sessions |-> 0, page |-> << >>, instructions |-> << >>,
    waits |-> << >>, outcomes |-> << >>, resolveLog |-> << >>,
    uploads |-> << >> ]

\* the positions at which an import runs synchronously (no await): no click,
\* timer or host answer is handled while some import is at one of them
SyncPcs == {"fonts", "compile", "created", "complete", "catch", "allEnd"}

Busy == \E q \in Procs : proc[q].pc \in SyncPcs

\* `cur`: the selected layout exists
cur == selectedLayoutIndex \in 1..Len(layouts)

\* the slot a new handler call takes
FreeSlot(p) == proc[p].pc = "idle" /\ \A q \in 1..(p - 1) : proc[q].pc # "idle"

Init ==
  /\ layouts = << >>
  /\ selectedLayoutIndex = 1
  /\ files = {}
  /\ status = "ready"
  /\ isImporting = FALSE
  /\ fontCacheRaw = EmptyMap
  /\ fontCacheNorm = EmptyMap
  /\ userFontChoices = EmptyMap
  /\ pendingFontResolve = 0
  /\ pendingFontName = << >>
  /\ pickers = EmptyBag
  /\ proc = [p \in Procs |-> IdleProc]
  /\ firstChoice = EmptyMap
  /\ budget = [folders |-> 0, imports |-> 0]

(***************************************************************************)
(* Folder selection and the two reset buttons                              *)
(***************************************************************************)
\* handleFolderSelect, with layouts ls and folder contents fs chosen by the
\* user and the answer of findFonts(): a list of fonts, or a failure (ok
\* false), which leaves the font caches as they were
FolderSelectFrom(ls, fs, ok, fonts) ==
  /\ Len(layouts) = 0 /\ ~isImporting /\ ~Busy
  /\ budget.folders < MaxFolders
  /\ budget' = [budget EXCEPT !.folders = @ + 1]
  /\ layouts' = ls
  /\ selectedLayoutIndex' = 1
  /\ files' = fs
  /\ status' = "loaded"
  /\ IF ok
     THEN LET c == BuildFontCaches(fonts, EmptyMap, EmptyMap)
          IN /\ fontCacheRaw' = c.raw
             /\ fontCacheNorm' = c.normalized
             /\ firstChoice' = EmptyMap
     ELSE UNCHANGED <<fontCacheRaw, fontCacheNorm, firstChoice>>
  /\ UNCHANGED <<isImporting, userFontChoices, pendingFontResolve, pendingFontName,
                 pickers, proc>>

FolderSelect ==
  \E ls \in SessionLayoutSets : \E fs \in FolderContents(ls) :
    \E ok \in BOOLEAN : \E fonts \in Catalogs :
      /\ (~ok => fonts = << >>)
      /\ FolderSelectFrom(ls, fs, ok, fonts)

\* the button "Сбросить замены"
ResetChoices ==
  /\ cur /\ Len(userFontChoices) > 0 /\ ~isImporting /\ ~Busy
  /\ userFontChoices' = EmptyMap
  /\ firstChoice' = EmptyMap
  /\ UNCHANGED <<budget, layouts, selectedLayoutIndex, files, status, isImporting,
                 fontCacheRaw, fontCacheNorm, pendingFontResolve, pendingFontName,
                 pickers, proc>>

\* the button "Другая папка"
NewFolder ==
  /\ cur /\ ~isImporting /\ pendingFontResolve = 0 /\ ~Busy
  /\ layouts' = << >>
  /\ selectedLayoutIndex' = 1
  /\ files' = {}
  /\ status' = "ready"
  /\ userFontChoices' = EmptyMap
  /\ firstChoice' = EmptyMap
  /\ UNCHANGED <<budget, isImporting, fontCacheRaw, fontCacheNorm, pendingFontResolve,
                 pendingFontName, pickers, proc>>

(***************************************************************************)
(* handleImportLayout                                                      *)
(***************************************************************************)
\* the status an import shows when it reaches position pc
StatusAt(pc, old) ==
  IF pc = "upload" THEN "uploading"
  ELSE IF pc = "fonts" THEN "fonts"
  ELSE old

\* entering step 2 (lines 489-501)
EnterFonts(r) ==
  [r EXCEPT !.pc = "fonts", !.fontQueue = UniqueFonts(r.sorted, << >>),
            !.resolvedFonts = EmptyMap]

\* lines 433-461: the call of handleImportLayout(idx) up to its first await,
\* in a handler whose closure holds the layouts ls and the font caches
StartImport(ls, idx, mode, rawC, normC) ==
  LET sorted     == SortObjects(ls[idx].objects)
      uploadList == ToUpload(sorted, << >>)
      r == [IdleProc EXCEPT !.pc = "upload", !.mode = mode, !.layouts = ls,
                            !.layoutIndex = idx, !.rawC = rawC, !.normC = normC,
                            !.sorted = sorted, !.uploadList = uploadList, !.i = 1]
  IN IF uploadList = << >> THEN EnterFonts(r) ELSE r

\* the button "Импортировать", after selecting artboard idx in the list
ClickImport(p, idx) ==
  /\ cur /\ pendingFontResolve = 0 /\ ~isImporting /\ ~Busy
  /\ FreeSlot(p)
  /\ budget.imports < MaxImports
  /\ budget' = [budget EXCEPT !.imports = @ + 1]
  /\ idx \in 1..Len(layouts)
  /\ idx = selectedLayoutIndex \/ Len(layouts) > 1
  /\ selectedLayoutIndex' = idx
  /\ isImporting' = TRUE
  /\ proc' = [proc EXCEPT ![p] =
                StartImport(layouts, idx, "single", fontCacheRaw, fontCacheNorm)]
  /\ status' = StatusAt(proc'[p].pc, status)
  /\ UNCHANGED <<layouts, files, fontCacheRaw, fontCacheNorm, userFontChoices,
                 pendingFontResolve, pendingFontName, pickers, firstChoice>>

\* the button "Все (n стр.)": handleImportAll up to its first await
ClickImportAll(p) ==
  /\ cur /\ pendingFontResolve = 0 /\ Len(layouts) > 1 /\ ~isImporting /\ ~Busy
  /\ FreeSlot(p)
  /\ budget.imports < MaxImports
  /\ budget' = [budget EXCEPT !.imports = @ + 1]
  /\ selectedLayoutIndex' = 1
  /\ isImporting' = TRUE
  /\ proc' = [proc EXCEPT ![p] =
                StartImport(layouts, 1, "all", fontCacheRaw, fontCacheNorm)]
  /\ status' = StatusAt(proc'[p].pc, status)
  /\ UNCHANGED <<layouts, files, fontCacheRaw, fontCacheNorm, userFontChoices,
                 pendingFontResolve, pendingFontName, pickers, firstChoice>>

\* getFile(layout.artboardName, fname): the file is in the folder
getFile(fname) == fname \in files

\* one iteration of the upload loop (lines 462-485): the answer of upload()
\* is ok or a failure
UploadStep(p, ok) ==
  /\ proc[p].pc = "upload" /\ ~Busy
  /\ LET r     == proc[p]
         fname == r.uploadList[r.i]
         refs  == IF fname # "" /\ getFile(fname) /\ ok
                  THEN MapSet(r.imageRefs, fname, ImageRefOf(fname))
                  ELSE r.imageRefs
         \* history: the uploadFile calls made and what each returned
         calls == IF fname # "" /\ getFile(fname)
                  THEN Append(r.uploads,
                              [fname |-> fname,
                               ref |-> IF ok THEN <<ImageRefOf(fname)>> ELSE << >>])
                  ELSE r.uploads
         rn    == [r EXCEPT !.imageRefs = refs, !.i = r.i + 1, !.uploads = calls]
     IN /\ (fname = "" \/ ~getFile(fname)) => ok
        /\ proc' = [proc EXCEPT ![p] =
                      IF r.i = Len(r.uploadList) THEN EnterFonts(rn) ELSE rn]
  /\ status' = StatusAt(proc'[p].pc, status)
  /\ UNCHANGED <<budget, layouts, selectedLayoutIndex, files, isImporting, fontCacheRaw,
                 fontCacheNorm, userFontChoices, pendingFontResolve, pendingFontName,
                 pickers, firstChoice>>

\* the first answer to a family, kept until the choices are cleared; the
\* history is kept only by the specifications that observe it (track)
NoteFirst(track, fc, family, choice) ==
  IF ~track \/ MapHas(fc, family) THEN fc ELSE MapSet(fc, family, choice)

\* a resolution that consults the catalog alone
ResolveCatalogOnly(fontFamily, rawC, normC, choices) ==
  findCanvaFont(fontFamily, rawC, normC)

\* resolveFontRef's synchronous answers: the catalog, then the user's cache;
\* "undefined" when the user must be asked
ResolveNow(fontFamily, rawC, normC, choices) ==
  LET autoRef == findCanvaFont(fontFamily, rawC, normC)
  IN IF autoRef # "undefined" THEN autoRef
     ELSE MapGet(choices, toLowerCase(fontFamily))

\* one iteration of the font loop (lines 503-508), or its end (lines 510-521)
FontStep(p, track) ==
  /\ proc[p].pc = "fonts"
  /\ LET r == proc[p]
     IN IF r.fontQueue = << >>
        THEN /\ proc' = [proc EXCEPT ![p] = [r EXCEPT !.pc = "compile",
                           !.elements = << >>, !.elementIdx = 0, !.obj = 1]]
             /\ status' = "preparing"
             /\ UNCHANGED <<pendingFontResolve, pendingFontName, firstChoice>>
        ELSE LET fontFamily == Head(r.fontQueue)
                 result == ResolveNow(fontFamily, r.rawC, r.normC, userFontChoices)
                 logged == [r EXCEPT !.resolveLog = Append(@, fontFamily)]
             IN IF result # "undefined"
                THEN /\ proc' = [proc EXCEPT ![p] = [logged EXCEPT
                                   !.resolvedFonts = MapSet(@, fontFamily, result),
                                   !.fontQueue = Tail(@)]]
                     /\ firstChoice' = NoteFirst(track, firstChoice, fontFamily, result)
                     /\ UNCHANGED <<status, pendingFontResolve, pendingFontName>>
                ELSE \* askUserForFont
                     /\ proc' = [proc EXCEPT ![p] = [logged EXCEPT !.pc = "ask"]]
                     /\ status' = "fontMissing"
                     /\ pendingFontName' = fontFamily
                     /\ pendingFontResolve' = p
                     /\ UNCHANGED firstChoice
  /\ UNCHANGED <<budget, layouts, selectedLayoutIndex, files, isImporting, fontCacheRaw,
                 fontCacheNorm, userFontChoices, pickers>>

\* let delay = 3000
BaseDelay == 3000

\* for (let att = 1; att <= 5; att++)
MaxAttempts == 5

\* one iteration of the element loop (lines 523-699), or its end and the
\* first addPage call (lines 701-716)
CompileStep(p) ==
  /\ proc[p].pc = "compile"
  /\ LET r == proc[p]
     IN IF r.obj > Len(r.sorted)
        THEN /\ proc' = [proc EXCEPT ![p] = [r EXCEPT !.pc = "addPage",
                           !.att = 1, !.delay = BaseDelay]]
             /\ status' = "creating"
        ELSE LET o       == r.sorted[r.obj]
                 emitted == CompileObject(o, r.imageRefs, r.resolvedFonts)
             IN /\ proc' = [proc EXCEPT ![p] = [r EXCEPT
                     !.elements = @ \o emitted,
                     !.opacityMap = RecordOpacity(@, r.elementIdx, o, emitted),
                     !.elementIdx = NextElementIdx(@, emitted),
                     !.obj = @ + 1]]
                /\ UNCHANGED status
  /\ UNCHANGED <<budget, layouts, selectedLayoutIndex, files, isImporting, fontCacheRaw,
                 fontCacheNorm, userFontChoices, pendingFontResolve, pendingFontName,
                 pickers, firstChoice>>

\* what addPage() answers: success, a rate-limit error, another error
AddPageOutcomes == {"ok", "rate_limited", "other"}

\* a catch that retries after any failure
RetryAnyFailure(outcome, att) ==
  IF att < MaxAttempts THEN "backoff" ELSE "catch"

\* the catch of the retry loop (lines 718-725): wait and retry, or rethrow
RetryOrThrow(outcome, att) ==
  IF outcome = "rate_limited" /\ att < MaxAttempts THEN "backoff" ELSE "catch"

\* a delay that grows by the base delay
LinearDelay(delay) == delay + BaseDelay

\* the delay of the next wait: delay *= 2
NextDelay(delay) == delay * 2

\* addPage() answers (lines 711-725)
AddPageReturns(p, outcome) ==
  /\ proc[p].pc = "addPage" /\ ~Busy
  /\ LET r == [proc[p] EXCEPT !.outcomes = Append(@, outcome)]
     IN proc' = [proc EXCEPT ![p] =
          IF outcome = "ok" THEN [r EXCEPT !.pc = "created"]
          ELSE IF RetryOrThrow(outcome, r.att) = "backoff"
               THEN [r EXCEPT !.pc = "backoff", !.waits = Append(@, r.delay)]
               ELSE [r EXCEPT !.pc = "catch"]]
  /\ UNCHANGED <<budget, layouts, selectedLayoutIndex, files, status, isImporting,
                 fontCacheRaw, fontCacheNorm, userFontChoices, pendingFontResolve,
                 pendingFontName, pickers, firstChoice>>

\* the backoff timer fires (lines 722-723) and addPage is called again
BackoffDone(p) ==
  /\ proc[p].pc = "backoff" /\ ~Busy
  /\ proc' = [proc EXCEPT ![p] = [@ EXCEPT !.pc = "addPage",
                !.delay = NextDelay(@), !.att = @ + 1]]
  /\ UNCHANGED <<budget, layouts, selectedLayoutIndex, files, status, isImporting,
                 fontCacheRaw, fontCacheNorm, userFontChoices, pendingFontResolve,
                 pendingFontName, pickers, firstChoice>>

\* the page addPage() created, as the host holds it: one supported,
\* unlocked, opaque element per submitted element, in the submitted order
PageOf(elements) ==
  [ type |-> "absolute", locked |-> FALSE,
    elements |-> [i \in 1..Len(elements) |->
                    [type |-> elements[i].type, locked |-> FALSE, transparency |-> 0]] ]

\* a pass that runs whatever opacityMap holds
AlwaysOpacityPass(opacityMap) == TRUE

\* if (opacityMap.length > 0)
NeedsOpacityPass(opacityMap) == Len(opacityMap) > 0

\* lines 728-736: the page exists; the opacity pass starts when opacityMap
\* is not empty
PageCreated(p) ==
  /\ proc[p].pc = "created"
  /\ IF NeedsOpacityPass(proc[p].opacityMap)
     THEN /\ proc' = [proc EXCEPT ![p] = [@ EXCEPT !.pc = "settle",
                        !.page = <<PageOf(proc[p].elements)>>]]
          /\ status' = "opacity"
     ELSE /\ proc' = [proc EXCEPT ![p] = [@ EXCEPT !.pc = "complete",
                        !.page = <<PageOf(proc[p].elements)>>]]
          /\ UNCHANGED status
  /\ UNCHANGED <<budget, layouts, selectedLayoutIndex, files, isImporting, fontCacheRaw,
                 fontCacheNorm, userFontChoices, pendingFontResolve, pendingFontName,
                 pickers, firstChoice>>

\* the 1000 ms timer fires and openDesign is called (lines 736-738)
SettleDone(p) ==
  /\ proc[p].pc = "settle" /\ ~Busy
  /\ proc' = [proc EXCEPT ![p] = [@ EXCEPT !.pc = "openDesign",
                !.sessions = @ + 1]]
  /\ UNCHANGED <<budget, layouts, selectedLayoutIndex, files, status, isImporting,
                 fontCacheRaw, fontCacheNorm, userFontChoices, pendingFontResolve,
                 pendingFontName, pickers, firstChoice>>

RECURSIVE PatchWithoutChecks(_, _)
\* a loop that sets the transparency of every element in range
PatchWithoutChecks(pageElements, opacityMap) ==
  IF opacityMap = << >> THEN pageElements
  ELSE LET a  == Head(opacityMap)
           ix == a.elementIndex + 1
       IN PatchWithoutChecks(
            IF a.elementIndex < Len(pageElements)
            THEN [pageElements EXCEPT ![ix].transparency = 100 - a.opacity]
            ELSE pageElements,
            Tail(opacityMap))

RECURSIVE PatchOpacity(_, _)
\* the loop over opacityMap in the callback (lines 749-758): percent here
PatchOpacity(pageElements, opacityMap) ==
  IF opacityMap = << >> THEN pageElements
  ELSE LET a  == Head(opacityMap)
           ix == a.elementIndex + 1
           ok == /\ a.elementIndex < Len(pageElements)
                 /\ pageElements[ix].type # "unsupported"
                 /\ ~pageElements[ix].locked
       IN PatchOpacity(IF ok THEN [pageElements EXCEPT ![ix].transparency = 100 - a.opacity]
                       ELSE pageElements,
                       Tail(opacityMap))

\* the callback of openDesign up to session.sync() (lines 741-759): the
\* page as the session holds it
OpenDesignCallback(page, opacityMap) ==
  IF page.type # "absolute" \/ page.locked THEN page
  ELSE [page EXCEPT !.elements = PatchOpacity(@, opacityMap)]

\* a catch that lists nothing
NoInstructions(opacityMap) == << >>

\* the lines the catch logs (lines 765-768), one per assignment
ManualInstructions(opacityMap) ==
  [i \in 1..Len(opacityMap) |->
     [element |-> opacityMap[i].elementIndex, percent |-> opacityMap[i].opacity]]

\* how an openDesign call can end: the callback patched and synced, the
\* callback returned at once (page locked or not absolute), openDesign
\* threw before the callback ran, or session.sync() threw
OpenDesignOutcomes == {"applied", "locked", "notAbsolute", "openFailed", "syncFailed"}

\* how the session can show the elements of the page: as they were added,
\* the first one locked, the first one of a type the session does not
\* support, or the last one not there
PageViews == {"asIs", "firstLocked", "firstUnsupported", "lastMissing"}

\* the page the session shows
SessionPage(page, outcome, view) ==
  LET n  == Len(page.elements)
      es == IF n = 0 \/ view = "asIs" THEN page.elements
            ELSE IF view = "firstLocked" THEN [page.elements EXCEPT ![1].locked = TRUE]
            ELSE IF view = "firstUnsupported"
                 THEN [page.elements EXCEPT ![1].type = "unsupported"]
            ELSE SubSeq(page.elements, 1, n - 1)
      shown == [page EXCEPT !.elements = es]
  IN IF outcome = "locked" THEN [shown EXCEPT !.locked = TRUE]
     ELSE IF outcome = "notAbsolute" THEN [shown EXCEPT !.type = "unsupported"]
     ELSE shown

\* openDesign() settles (lines 738-770); only a throw logs the manual
\* instructions, only a sync commits what the callback set
OpenDesignReturns(p, outcome, view) ==
  /\ proc[p].pc = "openDesign" /\ ~Busy
  /\ LET r      == proc[p]
         seen   == SessionPage(r.page[1], outcome, view)
         draft  == OpenDesignCallback(seen, r.opacityMap)
         threw  == outcome \in {"openFailed", "syncFailed"}
     IN proc' = [proc EXCEPT ![p] = [r EXCEPT !.pc = "complete",
                   !.manual = threw,
                   !.page = <<IF threw THEN seen ELSE draft>>,
                   !.instructions = IF threw THEN ManualInstructions(r.opacityMap)
                                    ELSE << >>]]
  /\ UNCHANGED <<budget, layouts, selectedLayoutIndex, files, status, isImporting,
                 fontCacheRaw, fontCacheNorm, userFontChoices, pendingFontResolve,
                 pendingFontName, pickers, firstChoice>>

\* an import whose failure reaches handleImportAll and ends the run
ReturnOrAbortRun(p, st, imp) ==
  LET r == proc[p]
      caller == [IdleProc EXCEPT !.mode = "all", !.layouts = r.layouts,
                                 !.layoutIndex = r.layoutIndex,
                                 !.rawC = r.rawC, !.normC = r.normC]
  IN /\ proc' = [proc EXCEPT ![p] =
                   IF r.mode # "all" \/ st = "error" THEN IdleProc
                   ELSE IF r.layoutIndex < Len(r.layouts)
                        THEN [caller EXCEPT !.pc = "allPause"]
                        ELSE [caller EXCEPT !.pc = "allEnd"]]
     /\ status' = st
     /\ isImporting' = imp

\* handleImportLayout returns to its caller: a click handler ends; handleImportAll
\* (lines 791-794) pauses before the next artboard or, after the last one,
\* goes on to its own end. st and imp are the status and the isImporting
\* flag handleImportLayout leaves.
ReturnFrom(p, st, imp) ==
  LET r == proc[p]
      caller == [IdleProc EXCEPT !.mode = "all", !.layouts = r.layouts,
                                 !.layoutIndex = r.layoutIndex,
                                 !.rawC = r.rawC, !.normC = r.normC]
  IN /\ proc' = [proc EXCEPT ![p] =
                   IF r.mode # "all" THEN IdleProc
                   ELSE IF r.layoutIndex < Len(r.layouts)
                        THEN [caller EXCEPT !.pc = "allPause"]
                        ELSE [caller EXCEPT !.pc = "allEnd"]]
     /\ status' = st
     /\ isImporting' = imp

\* lines 773-774, then finally (line 781)
Complete(p) ==
  /\ proc[p].pc = "complete"
  /\ ReturnFrom(p, "done", FALSE)
  /\ UNCHANGED <<budget, layouts, selectedLayoutIndex, files, fontCacheRaw, fontCacheNorm,
                 userFontChoices, pendingFontResolve, pendingFontName, pickers,
                 firstChoice>>

\* catch (lines 776-779), then finally (line 781)
Catch(p) ==
  /\ proc[p].pc = "catch"
  /\ ReturnFrom(p, "error", FALSE)
  /\ UNCHANGED <<budget, layouts, selectedLayoutIndex, files, fontCacheRaw, fontCacheNorm,
                 userFontChoices, pendingFontResolve, pendingFontName, pickers,
                 firstChoice>>

\* the 5 s pause of handleImportAll ends (lines 790-792): the next artboard
AllPauseDone(p) ==
  /\ proc[p].pc = "allPause" /\ ~Busy
  /\ LET r == proc[p]
     IN /\ selectedLayoutIndex' = r.layoutIndex + 1
        /\ proc' = [proc EXCEPT ![p] =
                      StartImport(r.layouts, r.layoutIndex + 1, "all", r.rawC, r.normC)]
  /\ isImporting' = TRUE
  /\ status' = StatusAt(proc'[p].pc, status)
  /\ UNCHANGED <<budget, layouts, files, fontCacheRaw, fontCacheNorm, userFontChoices,
                 pendingFontResolve, pendingFontName, pickers, firstChoice>>

\* the end of handleImportAll (lines 795-796), in the same turn as the
\* return of the last handleImportLayout
AllEnd(p) ==
  /\ proc[p].pc = "allEnd"
  /\ proc' = [proc EXCEPT ![p] = IdleProc]
  /\ status' = "allDone"
  /\ isImporting' = FALSE
  /\ UNCHANGED <<budget, layouts, selectedLayoutIndex, files, fontCacheRaw, fontCacheNorm,
                 userFontChoices, pendingFontResolve, pendingFontName, pickers,
                 firstChoice>>

(***************************************************************************)
(* The font dialog                                                         *)
(***************************************************************************)
\* resolve(choice) on the promise import p awaits: p leaves askUserForFont
\* with the choice (lines 426-427, 505-507)
Resume(pr, p, choice) ==
  [pr EXCEPT ![p] = [@ EXCEPT !.pc = "fonts",
      !.resolvedFonts = MapSet(@, Head(pr[p].fontQueue), choice),
      !.fontQueue = Tail(@)]]

\* a promise settles once: the resolvers of p's promise that pending
\* handlePickFont calls still hold do nothing from now on (0)
Settle(ps, p) ==
  LET S == BagToSet(ps)
      dead(h) == IF h.resolve = p /\ p # 0 THEN [h EXCEPT !.resolve = 0] ELSE h
      T == {dead(h) : h \in S}
  IN [t \in T |-> LET pre == {h \in S : dead(h) = t}
                      n[U \in SUBSET pre] ==
                        IF U = {} THEN 0
                        ELSE LET x == CHOOSE x \in U : TRUE
                             IN ps[x] + n[U \ {x}]
                  IN n[pre]]

\* handleUseSvg (lines 294-305)
UseSvg(track) ==
  /\ pendingFontResolve # 0 /\ ~Busy
  /\ LET p        == pendingFontResolve
         fontName == pendingFontName
     IN /\ userFontChoices' = MapSet(userFontChoices, toLowerCase(fontName), "use_svg")
        /\ proc' = Resume(proc, p, "use_svg")
        /\ firstChoice' = NoteFirst(track, firstChoice, Head(proc[p].fontQueue), "use_svg")
        /\ pickers' = Settle(pickers, p)
  /\ pendingFontResolve' = 0
  /\ pendingFontName' = << >>
  /\ UNCHANGED <<budget, layouts, selectedLayoutIndex, files, status, isImporting,
                 fontCacheRaw, fontCacheNorm>>

\* handlePickFont up to its await (lines 266-272)
ClickPickFont ==
  /\ pendingFontResolve # 0 /\ ~Busy
  /\ BagCardinality(pickers) < MaxPickers
  /\ pickers' = pickers (+) SetToBag({[resolve |-> pendingFontResolve,
                                       fontName |-> pendingFontName]})
  /\ UNCHANGED <<budget, layouts, selectedLayoutIndex, files, status, isImporting,
                 fontCacheRaw, fontCacheNorm, userFontChoices, pendingFontResolve,
                 pendingFontName, proc, firstChoice>>

\* how requestFontSelection() can end: a font was picked (the FontRef),
\* the picker was closed, or the call threw
PickerOutcomes == PickerFonts \cup {"cancelled", "error"}

\* the choice handlePickFont resolves with
PickedChoice(outcome) == IF outcome \in PickerFonts THEN outcome ELSE "use_svg"

\* the cache after handlePickFont's try/catch: a pick or a cancel is stored,
\* a throw is not
RecordPick(choices, fontName, outcome) ==
  IF outcome = "error" THEN choices
  ELSE MapSet(choices, toLowerCase(fontName), PickedChoice(outcome))

\* handlePickFont after its await (lines 273-290)
PickerReturns(h, outcome, track) ==
  /\ BagIn(h, pickers) /\ ~Busy
  /\ userFontChoices' = RecordPick(userFontChoices, h.fontName, outcome)
  /\ IF h.resolve # 0
     THEN /\ proc' = Resume(proc, h.resolve, PickedChoice(outcome))
          /\ firstChoice' = NoteFirst(track, firstChoice, Head(proc[h.resolve].fontQueue),
                                      PickedChoice(outcome))
     ELSE UNCHANGED <<proc, firstChoice>>
  /\ pickers' = Settle(pickers (-) SetToBag({h}), h.resolve)
  /\ pendingFontResolve' = 0
  /\ pendingFontName' = << >>
  /\ UNCHANGED <<budget, layouts, selectedLayoutIndex, files, status, isImporting,
                 fontCacheRaw, fontCacheNorm>>

(***************************************************************************)
(* The session: every click, timer and host answer                         *)
(***************************************************************************)
Next ==
  \/ FolderSelect
  \/ ResetChoices
  \/ NewFolder
  \/ \E p \in Procs : \E idx \in 1..Len(layouts) : ClickImport(p, idx)
  \/ \E p \in Procs : ClickImportAll(p)
  \/ \E p \in Procs : \E ok \in BOOLEAN : UploadStep(p, ok)
  \/ \E p \in Procs : FontStep(p, FALSE)
  \/ \E p \in Procs : CompileStep(p)
  \/ \E p \in Procs : \E outcome \in {"ok", "other"} : AddPageReturns(p, outcome)
  \/ \E p \in Procs : PageCreated(p)
  \/ \E p \in Procs : SettleDone(p)
  \/ \E p \in Procs : \E outcome \in OpenDesignOutcomes :
       OpenDesignReturns(p, outcome, "asIs")
  \/ \E p \in Procs : Complete(p)
  \/ \E p \in Procs : Catch(p)
  \/ \E p \in Procs : AllPauseDone(p)
  \/ \E p \in Procs : AllEnd(p)
  \/ UseSvg(FALSE)
  \/ ClickPickFont
  \/ \E h \in BagToSet(pickers) : \E outcome \in PickerOutcomes : PickerReturns(h, outcome, FALSE)

\* The session-level specification: one folder of two artboards, every
\* interleaving of the user's clicks with the imports, the font picker and
\* the host; addPage succeeds or fails outright (the retry loop is the
\* subject of ImportSpec).
Spec == Init /\ [][Next]_vars

(***************************************************************************)
(* One import of one artboard, over every object list of the pool          *)
(***************************************************************************)
FolderSelectOne ==
  \E ls \in ImportLayoutSets : \E fs \in FolderContents(ls) :
    \E ok \in BOOLEAN : \E fonts \in Catalogs :
      /\ (~ok => fonts = << >>)
      /\ FolderSelectFrom(ls, fs, ok, fonts)

\* the user clicks "Импортировать" once
ClickImportOnce(p) == budget.imports = 0 /\ ClickImport(p, 1)

\* the user answers a font dialog once: no click while the picker is open
PickFontOnce == pickers = EmptyBag /\ ClickPickFont

UseSvgOnce(track) == pickers = EmptyBag /\ UseSvg(track)

ImportNext ==
  \/ FolderSelectOne
  \/ \E p \in Procs : ClickImportOnce(p)
  \/ \E p \in Procs : \E ok \in BOOLEAN : UploadStep(p, ok)
  \/ \E p \in Procs : FontStep(p, FALSE)
  \/ \E p \in Procs : CompileStep(p)
  \/ \E p \in Procs : \E outcome \in AddPageOutcomes : AddPageReturns(p, outcome)
  \/ \E p \in Procs : BackoffDone(p)
  \/ \E p \in Procs : PageCreated(p)
  \/ \E p \in Procs : SettleDone(p)
  \/ \E p \in Procs : \E outcome \in OpenDesignOutcomes : \E view \in PageViews :
       (outcome = "applied" \/ view = "asIs") /\ OpenDesignReturns(p, outcome, view)
  \/ \E p \in Procs : Complete(p)
  \/ \E p \in Procs : Catch(p)
  \/ PickFontOnce
  \/ UseSvgOnce(FALSE)
  \/ \E h \in BagToSet(pickers) : \E outcome \in PickerOutcomes : PickerReturns(h, outcome, FALSE)

ImportSpec == Init /\ [][ImportNext]_vars

(***************************************************************************)
(* Font matching: one text object of each family against each catalog      *)
(***************************************************************************)
\* a folder with one artboard that holds one text object of the family
FolderSelectMatch ==
  \E f \in MatchFamilies : \E fonts \in MatchCatalogs :
    FolderSelectFrom(<<LayoutOf("A", <<TextObject(f, "")>>)>>, {}, TRUE, fonts)

MatchNext ==
  \/ FolderSelectMatch
  \/ \E p \in Procs : ClickImportOnce(p)
  \/ \E p \in Procs : FontStep(p, FALSE)
  \/ UseSvgOnce(FALSE)
  \/ \E p \in Procs : CompileStep(p)

MatchSpec == Init /\ [][MatchNext]_vars

(***************************************************************************)
(* Shape synthesis: one mask of each shape and size                        *)
(***************************************************************************)
\* a folder with one artboard that holds one mask, its own content
FolderSelectShape ==
  \E z \in ShapeSizes : \E shape \in ClipShapesOf(z) :
    FolderSelectFrom(
      <<LayoutOf("A", <<[ClipObject("m.png", "", "", << >>, shape, <<100>>)
                           EXCEPT !.width = z.w, !.height = z.h, !.unit = z.unit]>>)>>,
      {"m.png"}, TRUE, << >>)

ShapeNext ==
  \/ FolderSelectShape
  \/ \E p \in Procs : ClickImportOnce(p)
  \/ \E p \in Procs : \E ok \in BOOLEAN : UploadStep(p, ok)
  \/ \E p \in Procs : FontStep(p, FALSE)
  \/ \E p \in Procs : CompileStep(p)

ShapeSpec == Init /\ [][ShapeNext]_vars

(***************************************************************************)
(* Imports one after the other, with the history of first answers          *)
(***************************************************************************)
RepeatNext ==
  \/ FolderSelect
  \/ ResetChoices
  \/ \E p \in Procs : \E idx \in 1..Len(layouts) : ClickImport(p, idx)
  \/ \E p \in Procs : \E ok \in BOOLEAN : UploadStep(p, ok)
  \/ \E p \in Procs : FontStep(p, TRUE)
  \/ \E p \in Procs : CompileStep(p)
  \/ \E p \in Procs : \E outcome \in {"ok", "other"} : AddPageReturns(p, outcome)
  \/ \E p \in Procs : PageCreated(p)
  \/ \E p \in Procs : SettleDone(p)
  \/ \E p \in Procs : \E outcome \in OpenDesignOutcomes :
       OpenDesignReturns(p, outcome, "asIs")
  \/ \E p \in Procs : Complete(p)
  \/ \E p \in Procs : Catch(p)
  \/ PickFontOnce
  \/ UseSvgOnce(TRUE)
  \/ \E h \in BagToSet(pickers) : \E outcome \in PickerOutcomes : PickerReturns(h, outcome, TRUE)

RepeatSpec == Init /\ [][RepeatNext]_vars

(***************************************************************************)
(* One "import all" run over three artboards of images, addPage answering  *)
(* anything, with the clicks the released isImporting flag allows          *)
(***************************************************************************)
\* three artboards without text: A with a dimmed image, B with an opaque
\* vector, C with the image of A
AllLayouts ==
  << LayoutOf("A", <<PngObject("a.png", <<50>>)>>),
     LayoutOf("B", <<[PngObject("b.svg", << >>) EXCEPT !.type = "svg"]>>),
     LayoutOf("C", <<PngObject("a.png", <<75>>)>>) >>

FolderSelectAll ==
  \E fs \in FolderContents(AllLayouts) :
    FolderSelectFrom(AllLayouts, fs, TRUE, << >>)

\* "Все (n стр.)" is the first import of the session; "Импортировать" on
\* any artboard may follow once the run has started
AllNext ==
  \/ FolderSelectAll
  \/ \E p \in Procs : budget.imports = 0 /\ ClickImportAll(p)
  \/ \E p \in Procs : \E idx \in 1..Len(layouts) :
       budget.imports > 0 /\ ClickImport(p, idx)
  \/ \E p \in Procs : \E ok \in BOOLEAN : UploadStep(p, ok)
  \/ \E p \in Procs : FontStep(p, FALSE)
  \/ \E p \in Procs : CompileStep(p)
  \/ \E p \in Procs : \E outcome \in AddPageOutcomes : AddPageReturns(p, outcome)
  \/ \E p \in Procs : BackoffDone(p)
  \/ \E p \in Procs : PageCreated(p)
  \/ \E p \in Procs : SettleDone(p)
  \/ \E p \in Procs : \E outcome \in {"applied", "openFailed"} :
       OpenDesignReturns(p, outcome, "asIs")
  \/ \E p \in Procs : Complete(p)
  \/ \E p \in Procs : Catch(p)
  \/ \E p \in Procs : AllPauseDone(p)
  \/ \E p \in Procs : AllEnd(p)

\* every timer fires and the host answers every call: some step is taken
\* as long as one is possible
AllSpec == Init /\ [][AllNext]_vars /\ WF_vars(AllNext)

(***************************************************************************)
(* Element positions and opacity assignments                               *)
(***************************************************************************)
\* what the element loop pushes for the k-th sorted object of import r
EmittedFor(r, k) == CompileObject(r.sorted[k], r.imageRefs, r.resolvedFonts)

RECURSIVE EmittedBefore(_, _)
\* the number of elements pushed for the objects before the k-th
EmittedBefore(r, k) ==
  IF k <= 1 THEN 0 ELSE EmittedBefore(r, k - 1) + Len(EmittedFor(r, k - 1))

\* the k-th object gets an opacity assignment: emitted, opacity below 100
NeedsOpacity(r, k) ==
  /\ EmittedFor(r, k) # << >>
  /\ r.sorted[k].opacity # << >>
  /\ r.sorted[k].opacity[1] < 100

RECURSIVE AssignmentsUpTo(_, _)
\* the assignments of the first n objects, each at its element's position
AssignmentsUpTo(r, n) ==
  IF n = 0 THEN << >>
  ELSE IF NeedsOpacity(r, n)
       THEN Append(AssignmentsUpTo(r, n - 1),
                   [elementIndex |-> EmittedBefore(r, n),
                    opacity |-> r.sorted[n].opacity[1]])
       ELSE AssignmentsUpTo(r, n - 1)

\* the objects the element loop of import r has gone through
Compiled(r) == IF r.obj = 0 THEN 0 ELSE r.obj - 1

\* C1: at the start of every iteration of the element loop the counter
\* elementIdx equals the length of the element sequence; the element of
\* every emitted object sits at the position given by the number of elements
\* emitted before it, skipped objects not counted; and the recorded opacity
\* assignments are exactly those of the emitted objects with an opacity
\* below 100, each with elementIndex equal to its element's position (0-based)
C1_ElementIndexLockstep ==
  \A p \in Procs :
    LET r == proc[p]
    IN /\ r.elementIdx = Len(r.elements)
       /\ Len(r.elements) = EmittedBefore(r, Compiled(r) + 1)
       /\ \A k \in 1..Compiled(r) :
            EmittedFor(r, k) # << >> =>
              r.elements[EmittedBefore(r, k) + 1] = EmittedFor(r, k)[1]
       /\ r.opacityMap = AssignmentsUpTo(r, Compiled(r))

\* an import that skipped its first object and emitted its second with an
\* opacity assignment has finished the element loop
C1_Witness ==
  \E p \in Procs :
    LET r == proc[p]
    IN /\ r.pc = "addPage"
       /\ Len(r.sorted) = 2
       /\ EmittedFor(r, 1) = << >>
       /\ NeedsOpacity(r, 2)
       /\ r.opacityMap = << [elementIndex |-> 0, opacity |-> r.sorted[2].opacity[1]] >>

(***************************************************************************)
(* The addPage retry loop                                                  *)
(***************************************************************************)
Last(seq) == seq[Len(seq)]

\* every addPage call of import r so far was rate-limited
AllRateLimited(r) ==
  \A i \in 1..Len(r.outcomes) : r.outcomes[i] = "rate_limited"

RECURSIVE Doubling(_, _)
\* first, 2 x first, 4 x first, ...: n waits
Doubling(first, n) ==
  IF n = 0 THEN << >> ELSE <<first>> \o Doubling(2 * first, n - 1)

\* C2 as stated: an addPage call that is rate-limited on each of its 5
\* attempts is followed by the waits base, 2 x base, 4 x base, 8 x base,
\* 16 x base, and the stage then ends in the catch (Fatal)
C2_FiveWaitsThenFatal ==
  \A p \in Procs :
    LET r == proc[p]
    IN AllRateLimited(r) /\ Len(r.outcomes) = MaxAttempts =>
         r.pc = "catch" /\ r.waits = Doubling(BaseDelay, MaxAttempts)

\* C2, amended: while every attempt is rate-limited, the waits after the
\* first four attempts are base, 2 x base, 4 x base, 8 x base; the fifth
\* rate-limited attempt is followed by no wait and ends the stage in the
\* catch (Fatal)
C2_FourWaitsThenFatal ==
  \A p \in Procs :
    LET r == proc[p]
        n == Len(r.outcomes)
    IN AllRateLimited(r) /\ n > 0 =>
         /\ n <= MaxAttempts
         /\ r.waits = Doubling(BaseDelay, IF n < MaxAttempts THEN n ELSE MaxAttempts - 1)
         /\ n < MaxAttempts => r.pc \in {"backoff", "addPage"}
         /\ n = MaxAttempts => r.pc = "catch"

\* five rate-limited attempts have ended the stage in the catch
C2_Witness ==
  \E p \in Procs :
    /\ proc[p].pc = "catch"
    /\ Len(proc[p].outcomes) = MaxAttempts
    /\ AllRateLimited(proc[p])
    /\ Len(proc[p].waits) = MaxAttempts - 1

\* the positions of the page-creation stage and after it
InCreation(r) == r.pc \in {"addPage", "backoff"}
Succeeded(r)  == r.pc \in {"created", "settle", "openDesign", "complete"}
Fatal(r)      == r.pc = "catch"

\* what is left of the stage: the calls not yet answered, and the pending wait
Remaining(r) ==
  2 * (MaxAttempts - Len(r.outcomes)) + (IF r.pc = "backoff" THEN 1 ELSE 0)

C3_Bounded ==
  \A p \in Procs :
    LET r == proc[p]
        n == Len(r.outcomes)
    IN /\ n <= MaxAttempts
       /\ \A i \in 1..(n - 1) : r.outcomes[i] = "rate_limited"
       /\ Len(r.waits) = Cardinality({i \in 1..n : r.outcomes[i] = "rate_limited"
                                                   /\ i < MaxAttempts})
       /\ InCreation(r) => n < MaxAttempts /\ AllRateLimited(r)
       /\ n > 0 /\ Last(r.outcomes) = "other" => Fatal(r)
       /\ n > 0 /\ Last(r.outcomes) = "ok" => Succeeded(r)
       /\ n > 0 /\ ~InCreation(r) => Succeeded(r) \/ Fatal(r)

C3_Progress ==
  \A p \in Procs :
    InCreation(proc[p]) /\ proc'[p] # proc[p] =>
      \/ InCreation(proc'[p]) /\ Remaining(proc'[p]) < Remaining(proc[p])
      \/ Succeeded(proc'[p])
      \/ Fatal(proc'[p])

\* C3: addPage is called at most 5 times in an import; only a rate-limited
\* call is followed by another call; a failure of another kind ends the
\* stage in the catch with no wait after it; a success ends the stage; and
\* every step of the stage uses up a call or a wait of the at most 5 calls
\* and 4 waits, or ends the stage as succeeded or in the catch
C3_CreationTerminates == []C3_Bounded /\ [][C3_Progress]_vars

\* a rate-limited call, one wait, then a failure of another kind
C3_Witness ==
  \E p \in Procs :
    /\ proc[p].pc = "catch"
    /\ proc[p].outcomes = <<"rate_limited", "other">>
    /\ proc[p].waits = <<BaseDelay>>

(***************************************************************************)
(* Font resolution and the font dialog                                     *)
(***************************************************************************)
\* the family import r is resolving (the head of its queue of families)
Resolving(r) == Head(r.fontQueue)

\* C4: resolving a family again, with the catalog unchanged and the choices
\* not cleared since it was first resolved, shows no second prompt and gives
\* the choice the first resolution gave, whatever the first interaction
\* ended with (font picked, picker closed, picker failed, SVG chosen)
C4_ResolveIdempotent ==
  \A p \in Procs :
    LET r == proc[p]
    IN /\ r.pc = "ask" => ~MapHas(firstChoice, Resolving(r))
       /\ \A i \in 1..Len(r.resolvedFonts) :
            LET family == r.resolvedFonts[i][1]
            IN MapHas(firstChoice, family) =>
                 r.resolvedFonts[i][2] = MapGet(firstChoice, family)

\* C5: whenever an import leaves askUserForFont with a choice for a family,
\* userFontChoices maps the lowercased family to that choice at that moment
C5_RecordedBeforeResume ==
  [][\A p \in Procs :
       proc[p].pc = "ask" /\ proc'[p].pc # "ask" =>
         LET family == Resolving(proc[p])
         IN MapGet(userFontChoices', toLowerCase(family))
              = MapGet(proc'[p].resolvedFonts, family)]_vars

\* C6: at most one import awaits a choice in askUserForFont, at most one
\* requestFontSelection() call is in flight, and no import resolves a family
\* while another one awaits a choice
C6_OneResolutionOutstanding ==
  /\ Cardinality({p \in Procs : proc[p].pc = "ask"}) <= 1
  /\ BagCardinality(pickers) <= 1
  /\ \A p, q \in Procs : proc[p].pc = "ask" /\ q # p => proc[q].pc # "fonts"

\* the k-th sorted object of import r is a text with textData
IsText(r, k) == r.sorted[k].type = "text" /\ r.sorted[k].textData # << >>

FamilyOf(r, k) == r.sorted[k].textData[1].fontFamily

\* the element pushed for the k-th object, which was not skipped
ElementOf(r, k) == r.elements[EmittedBefore(r, k) + 1]

\* C7 as stated: with an empty catalog, or for an empty family, resolution
\* gives "use_svg" and no import waits in askUserForFont
C7_SentinelWithoutPrompt ==
  \A p \in Procs :
    LET r == proc[p]
    IN /\ r.rawC = EmptyMap =>
            /\ r.pc # "ask"
            /\ \A i \in 1..Len(r.resolvedFonts) : r.resolvedFonts[i][2] = "use_svg"
       /\ \A k \in 1..Compiled(r) :
            IsText(r, k) /\ FamilyOf(r, k) = << >> =>
              MapGet(r.resolvedFonts, << >>) = "use_svg"

C7_EmptyFamilyUnresolved ==
  \A p \in Procs :
    LET r == proc[p]
    IN /\ \A i \in 1..Len(r.resolveLog) : r.resolveLog[i] # << >>
       /\ ~MapHas(r.resolvedFonts, << >>)
       /\ r.pc = "ask" => Resolving(r) # << >>
       /\ \A k \in 1..Compiled(r) :
            IsText(r, k) /\ FamilyOf(r, k) = << >> =>
              "fontRef" \notin DOMAIN ElementOf(r, k)
       /\ r.rawC = EmptyMap =>
            \A i \in 1..Len(r.resolvedFonts) :
              r.resolvedFonts[i][2] \in PickerFonts \cup {"use_svg"}

C7_EmptyCatalogAsks ==
  \A p \in Procs :
    LET r == proc[p]
    IN r.pc = "fonts" /\ r.fontQueue # << >> /\ r.rawC = EmptyMap
         /\ proc'[p] # r =>
           LET key == toLowerCase(Resolving(r))
           IN IF MapHas(userFontChoices, key)
              THEN /\ proc'[p].pc = "fonts"
                   /\ MapGet(proc'[p].resolvedFonts, Resolving(r))
                        = MapGet(userFontChoices, key)
              ELSE /\ proc'[p].pc = "ask"
                   /\ pendingFontResolve' = p
                   /\ pendingFontName' = Resolving(r)

\* C7, amended: a text with an empty family is never passed to resolveFontRef
\* and never prompted for, gets no entry in resolvedFonts and is compiled
\* without a font reference; with an empty catalog no family is matched
\* automatically: it is answered from userFontChoices when cached, and
\* otherwise the import waits in askUserForFont for the user's choice
C7_EmptyFamilySkippedEmptyCatalogAsks ==
  []C7_EmptyFamilyUnresolved /\ [][C7_EmptyCatalogAsks]_vars

\* with an empty catalog, an import of a text with an empty family and a
\* text with a family has asked for the family alone and compiled both
C7_Witness ==
  \E p \in Procs :
    LET r == proc[p]
    IN /\ r.pc = "addPage" /\ r.rawC = EmptyMap
       /\ Len(r.sorted) = 2
       /\ IsText(r, 1) /\ FamilyOf(r, 1) = << >>
       /\ IsText(r, 2) /\ FamilyOf(r, 2) # << >>
       /\ r.resolveLog = << FamilyOf(r, 2) >>
       /\ MapGet(r.resolvedFonts, FamilyOf(r, 2)) \in PickerFonts
       /\ Len(r.elements) = 2

\* the distinct non-empty families of the text objects of import r
TextFamilies(r) ==
  {FamilyOf(r, k) : k \in {j \in 1..Len(r.sorted) : IsText(r, j)}} \ {<< >>}

\* the positions of an import after its font loop
AfterFonts ==
  {"compile", "addPage", "backoff", "created", "settle", "openDesign", "complete",
   "catch"}

C8_ResolvedOnceBeforeElements ==
  \A p \in Procs :
    LET r == proc[p]
    IN /\ \A i, j \in 1..Len(r.resolveLog) : i # j => r.resolveLog[i] # r.resolveLog[j]
       /\ {r.resolveLog[i] : i \in 1..Len(r.resolveLog)} \subseteq TextFamilies(r)
       /\ MapKeys(r.resolvedFonts) \subseteq TextFamilies(r)
       /\ r.pc \in {"upload", "fonts", "ask"} =>
            r.elements = << >> /\ Compiled(r) = 0
       /\ r.pc \in AfterFonts =>
            /\ {r.resolveLog[i] : i \in 1..Len(r.resolveLog)} = TextFamilies(r)
            /\ MapKeys(r.resolvedFonts) = TextFamilies(r)
            /\ pendingFontResolve # p

C8_NoResolutionAfterFonts ==
  \A p \in Procs :
    proc[p].pc \in AfterFonts /\ proc'[p].pc \in AfterFonts =>
      /\ proc'[p].resolveLog = proc[p].resolveLog
      /\ proc'[p].resolvedFonts = proc[p].resolvedFonts
      /\ pendingFontResolve' # p

\* C8: within one import each distinct family of its text objects is passed
\* to resolveFontRef exactly once; while families are being resolved or
\* prompted for no element has been built; and once the element loop has
\* started every family has its answer and no resolution or prompt of the
\* import happens any more
C8_EachFamilyOnceBeforeCompile ==
  []C8_ResolvedOnceBeforeElements /\ [][C8_NoResolutionAfterFonts]_vars

\* two texts of one family: the family was resolved once, both are compiled
C8_Witness ==
  \E p \in Procs :
    LET r == proc[p]
    IN /\ r.pc = "addPage"
       /\ Len(r.sorted) = 2
       /\ IsText(r, 1) /\ IsText(r, 2)
       /\ FamilyOf(r, 1) = FamilyOf(r, 2) /\ FamilyOf(r, 1) # << >>
       /\ r.resolveLog = << FamilyOf(r, 1) >>
       /\ Len(r.elements) = 2

(***************************************************************************)
(* The user's choices across imports                                       *)
(***************************************************************************)
\* userFontChoices changes in two ways only: a button clears it (no import
\* takes a step), or a dialog handler records one choice and closes the dialog
C9_CacheKept ==
  userFontChoices' # userFontChoices =>
    \/ userFontChoices' = EmptyMap /\ proc' = proc
    \/ /\ pendingFontResolve' = 0
       /\ \E k \in MapKeys(userFontChoices') :
            /\ MapGet(userFontChoices', k) \in PickerFonts \cup {"use_svg"}
            /\ userFontChoices' = MapSet(userFontChoices, k, MapGet(userFontChoices', k))

\* a family the catalog does not match is answered with the recorded choice
\* and no prompt when its lowercased name is in userFontChoices, and is
\* prompted for when it is not
C9_AnsweredFromCache ==
  \A p \in Procs :
    LET r == proc[p]
    IN r.pc = "fonts" /\ r.fontQueue # << >> /\ proc'[p] # r
         /\ findCanvaFont(Resolving(r), r.rawC, r.normC) = "undefined" =>
           LET key == toLowerCase(Resolving(r))
           IN IF MapHas(userFontChoices, key)
              THEN /\ proc'[p].pc = "fonts"
                   /\ proc'[p].fontQueue = Tail(r.fontQueue)
                   /\ MapGet(proc'[p].resolvedFonts, Resolving(r))
                        = MapGet(userFontChoices, key)
                   /\ UNCHANGED <<pendingFontResolve, pendingFontName, userFontChoices>>
              ELSE /\ proc'[p].pc = "ask"
                   /\ pendingFontResolve' = p
                   /\ pendingFontName' = Resolving(r)

C10_OneImportAtATime ==
  Cardinality({p \in Procs : proc[p].pc # "idle"}) <= 1

(***************************************************************************)
(* The opacity pass                                                        *)
(***************************************************************************)
\* C11: an import calls openDesign at most once, only after addPage has
\* succeeded and only when opacityMap is not empty; an import that ends
\* with an empty opacityMap, or in the catch after a failed addPage, has
\* called it not at all
C11_SessionOnceAfterSuccess ==
  \A p \in Procs :
    LET r == proc[p]
    IN /\ r.sessions <= 1
       /\ r.sessions = 1 =>
            /\ r.outcomes # << >> /\ Last(r.outcomes) = "ok"
            /\ Len(r.opacityMap) > 0
       /\ Fatal(r) => r.sessions = 0
       /\ r.pc = "openDesign" => r.sessions = 1
       /\ r.pc = "complete" => (r.sessions = 1 <=> Len(r.opacityMap) > 0)

\* an import with an opacity assignment has ended after its one session
C11_Witness ==
  \E p \in Procs :
    /\ proc[p].pc = "complete"
    /\ proc[p].sessions = 1
    /\ Len(proc[p].opacityMap) > 0
    /\ Last(proc[p].outcomes) = "ok"

\* the page of import r after its opacity pass
PageAfter(r) == r.page[1]

\* no element of the page of import r has been made transparent
NoElementChanged(r) ==
  \A i \in 1..Len(PageAfter(r).elements) : PageAfter(r).elements[i].transparency = 0

\* the session of import r showed a page that is locked or not absolute
SawUneditablePage(r) ==
  /\ r.sessions = 1 /\ r.pc = "complete"
  /\ PageAfter(r).locked \/ PageAfter(r).type # "absolute"

\* C12: when the session shows a locked or non-absolute page, the pass
\* changes no element, the import has logged one manual instruction per
\* opacity assignment, and the import goes on to its successful end
C12_UneditablePageGivesInstructions ==
  \A p \in Procs :
    LET r == proc[p]
    IN SawUneditablePage(r) =>
         /\ NoElementChanged(r)
         /\ r.instructions = ManualInstructions(r.opacityMap)
         /\ r.instructions # << >>

\* the openDesign call of import r threw (in opening or in session.sync())
SessionFailed(r) == r.pc = "complete" /\ r.manual

C13_FailureGivesInstructions ==
  \A p \in Procs :
    LET r == proc[p]
    IN /\ r.manual => r.pc = "complete" /\ r.sessions = 1
       /\ SessionFailed(r) =>
            /\ NoElementChanged(r)
            /\ Len(r.instructions) = Len(r.opacityMap)
            /\ Len(r.instructions) > 0
            /\ \A i \in 1..Len(r.opacityMap) :
                 /\ r.instructions[i].element = r.opacityMap[i].elementIndex
                 /\ r.instructions[i].percent = r.opacityMap[i].opacity

C13_FailureStillCompletes ==
  \A p \in Procs :
    SessionFailed(proc[p]) /\ proc'[p] # proc[p] =>
      /\ proc'[p].pc \in {"idle", "allPause", "allEnd"}
      /\ status' = "done"
      /\ ~isImporting'

\* C13: when openDesign or session.sync() throws, no element of the page
\* is changed, the import logs one manual instruction per opacity
\* assignment (its element index and its opacity), and its next step ends
\* it with the status of a completed import, not of an error
C13_SessionFailureIsGraceful ==
  []C13_FailureGivesInstructions /\ [][C13_FailureStillCompletes]_vars

\* an import whose session failed has logged its instruction and ended
C13_Witness ==
  \E p \in Procs :
    /\ SessionFailed(proc[p])
    /\ Len(proc[p].instructions) > 0
    /\ proc[p].instructions[1].percent < 100

(***************************************************************************)
(* Uploads and the elements that depend on them                            *)
(***************************************************************************)
\* the asset references one element carries: its own, its fill's, and
\* those of the children of a group
RefsOf(e) ==
  IF e.type = "group"
  THEN {e.children[i].ref : i \in 1..Len(e.children)}
  ELSE IF e.type \in {"image", "shape"} THEN {e.ref}
  ELSE {}

\* the positions of an import after its upload loop
AfterUpload == {"fonts", "ask"} \cup AfterFonts

C14_OnlyUploadedAssets ==
  \A p \in Procs :
    LET r == proc[p]
    IN /\ MapKeys(r.imageRefs) \subseteq files
       /\ \A i \in 1..Len(r.imageRefs) :
            /\ \E j \in 1..Len(r.uploadList) : r.uploadList[j] = r.imageRefs[i][1]
            /\ r.imageRefs[i][2] = ImageRefOf(r.imageRefs[i][1])
       /\ r.pc \in AfterUpload => r.i = Len(r.uploadList) + 1 \/ r.uploadList = << >>
       /\ \A i \in 1..Len(r.elements) :
            RefsOf(r.elements[i]) \subseteq MapValues(r.imageRefs)
       /\ \A k \in 1..Compiled(r) :
            LET o == r.sorted[k]
                content == IF o.contentFileName # "" THEN o.contentFileName
                           ELSE o.fileName
            IN /\ o.type \in {"png", "svg"} /\ ~MapHas(r.imageRefs, o.fileName) =>
                    EmittedFor(r, k) = << >>
               /\ o.type = "clipMask" /\ ~MapHas(r.imageRefs, content) =>
                    EmittedFor(r, k) = << >>

C14_UploadNeverAborts ==
  \A p \in Procs :
    /\ proc[p].pc = "upload" /\ proc'[p] # proc[p] =>
         /\ proc'[p].pc \in {"upload", "fonts"}
         /\ proc'[p].pc = "upload" => proc'[p].i = proc[p].i + 1
    /\ proc'[p].pc = "catch" /\ proc[p].pc # "catch" => proc[p].pc = "addPage"

\* C14: a file that is missing or whose upload fails gets no ImageRef and
\* ends nothing: each step of the upload loop goes on to the next file or
\* to the font step, every file of the list is tried, the catch is entered
\* from addPage alone, and no element of the sequence carries a reference
\* other than the ImageRef of a file uploaded in this import (an image
\* whose file has none adds no element)
C14_FailedUploadsSkipElements ==
  []C14_OnlyUploadedAssets /\ [][C14_UploadNeverAborts]_vars

\* an import of two objects, one of whose files got no ImageRef, has built
\* the one remaining element and called addPage
C14_Witness ==
  \E p \in Procs :
    LET r == proc[p]
    IN /\ r.pc = "addPage"
       /\ Len(r.sorted) = 2 /\ Len(r.uploadList) = 2
       /\ Len(r.imageRefs) = 1
       /\ Len(r.elements) = 1

(***************************************************************************)
(* Text objects                                                            *)
(***************************************************************************)
\* C15: every text object with textData that the element loop has gone
\* through has exactly one element in the sequence, an editable text with
\* the object's content or an image, whatever its family resolved to and
\* whichever files got no ImageRef
C15_TextNeverDropped ==
  \A p \in Procs :
    LET r == proc[p]
    IN \A k \in 1..Compiled(r) :
         IsText(r, k) =>
           /\ EmittedBefore(r, k + 1) = EmittedBefore(r, k) + 1
           /\ EmittedBefore(r, k + 1) <= Len(r.elements)
           /\ LET e == ElementOf(r, k)
              IN \/ e.type = "text" /\ e.children = << r.sorted[k].textData[1].content >>
                 \/ e.type = "image"

\* a text whose family is "use_svg" and whose SVG got no ImageRef is in
\* the sequence as an editable text
C15_Witness ==
  \E p \in Procs :
    LET r == proc[p]
    IN /\ r.pc = "addPage" /\ Len(r.sorted) = 1 /\ IsText(r, 1)
       /\ MapGet(r.resolvedFonts, FamilyOf(r, 1)) = "use_svg"
       /\ r.sorted[1].textSvgFileName # ""
       /\ ~MapHas(r.imageRefs, r.sorted[1].textSvgFileName)
       /\ Len(r.elements) = 1 /\ r.elements[1].type = "text"

(***************************************************************************)
(* Paint order                                                             *)
(***************************************************************************)
\* where the k-th sorted object stands in the file
OrigPos(r, k) ==
  LET objs == r.layouts[r.layoutIndex].objects
  IN CHOOSE j \in 1..Len(objs) : objs[j] = r.sorted[k]

\* C16: `sorted` holds the objects of the layout by ascending zIndex, with
\* index in place of an absent zIndex, objects of equal key in the order of
\* the file (zIndex 3,1,2 on index 0,1,2 gives index 1,2,0); and the
\* elements of the objects that were not skipped stand in that same order,
\* whichever objects were skipped
C16_PaintOrder ==
  \A p \in Procs :
    LET r    == proc[p]
        objs == r.layouts[r.layoutIndex].objects
    IN r.pc \in {"upload"} \cup AfterUpload =>
         /\ Len(r.sorted) = Len(objs)
         /\ \A j \in 1..Len(objs) :
              \E k \in 1..Len(r.sorted) : r.sorted[k] = objs[j]
         /\ \A k1, k2 \in 1..Len(r.sorted) :
              k1 < k2 =>
                /\ SortKey(r.sorted[k1]) <= SortKey(r.sorted[k2])
                /\ SortKey(r.sorted[k1]) = SortKey(r.sorted[k2]) =>
                     OrigPos(r, k1) < OrigPos(r, k2)
         /\ [j \in 1..Len(objs) |-> <<objs[j].index, objs[j].zIndex>>]
              = << <<0, <<3>> >>, <<1, <<1>> >>, <<2, <<2>> >> >> =>
                [k \in 1..Len(r.sorted) |-> r.sorted[k].index] = <<1, 2, 0>>
         /\ \A k1, k2 \in 1..Compiled(r) :
              k1 < k2 /\ EmittedFor(r, k1) # << >> /\ EmittedFor(r, k2) # << >> =>
                EmittedBefore(r, k1) < EmittedBefore(r, k2)
         /\ \A k \in 1..Compiled(r) :
              EmittedFor(r, k) # << >> /\ r.sorted[k].type \in {"png", "svg"} =>
                ElementOf(r, k).ref = ImageRefOf(r.sorted[k].fileName)

\* zIndex 3,1,2 on index 0,1,2: the objects were compiled as index 1,2,0,
\* the one of index 2 was skipped, and the elements of index 1 and index 0
\* stand in that order
C16_Witness ==
  \E p \in Procs :
    LET r    == proc[p]
        objs == r.layouts[r.layoutIndex].objects
    IN /\ r.pc = "addPage" /\ Len(objs) = 3
       /\ [j \in 1..3 |-> objs[j].zIndex] = << <<3>>, <<1>>, <<2>> >>
       /\ [k \in 1..3 |-> r.sorted[k].index] = <<1, 2, 0>>
       /\ EmittedFor(r, 2) = << >>
       /\ Len(r.elements) = 2
       /\ r.elements[1].ref = ImageRefOf(objs[2].fileName)
       /\ r.elements[2].ref = ImageRefOf(objs[1].fileName)


(***************************************************************************)
(* Catalog matching                                                        *)
(***************************************************************************)
\* the spec's tiers, as relations between a family and a display name
TierHit(t, family, name) ==
  CASE t = 1 -> toLowerCase(name) = toLowerCase(family)
    [] t = 2 -> norm(name) = norm(family)
    [] t = 3 -> stripStyle(family) # << >> /\ stripStyle(name) = stripStyle(family)
    [] t = 4 -> /\ Len(norm(name)) >= 4 /\ Len(norm(family)) >= 4
                /\ (includes(norm(family), norm(name)) \/ includes(norm(name), norm(family)))
    [] t = 5 -> /\ Len(stripStyle(name)) >= 4 /\ Len(stripStyle(family)) >= 4
                /\ (includes(stripStyle(family), stripStyle(name))
                      \/ includes(stripStyle(name), stripStyle(family)))

\* the family a thread has looked up, once it has
Looked(r) == r.resolveLog # << >>

\* what the catalog answered for it: a font reference, or "undefined"
CatalogAnswer(r) ==
  LET family == r.resolveLog[1]
  IN IF MapHas(r.resolvedFonts, family) /\ MapGet(r.resolvedFonts, family) # "use_svg"
     THEN MapGet(r.resolvedFonts, family)
     ELSE "undefined"

\* the thread's font caches were built from this catalog
BuiltFrom(r, fonts) ==
  LET c == BuildFontCaches(fonts, EmptyMap, EmptyMap)
  IN r.rawC = c.raw /\ r.normC = c.normalized

EarliestTierAnswer(family, fonts, answer) ==
  LET Hits(t) == {i \in 1..Len(fonts) : TierHit(t, family, fonts[i].name)}
      tiers   == {t \in 1..5 : Hits(t) # {}}
  IN IF tiers = {} THEN answer = "undefined"
     ELSE LET first == CHOOSE t \in tiers : \A u \in tiers : t <= u
          IN \E i \in Hits(first) : answer = fonts[i].ref

\* C17: the reference the catalog lookup returns is that of an entry
\* matching at the earliest tier (exact, normalized, style-stripped,
\* normalized substring, style-stripped substring) that has any hit, and
\* nothing is returned only when no tier has a hit; so an entry whose
\* display name equals the family case-insensitively is returned whenever
\* one exists.
C17_EarliestTierWins ==
  \A p \in Procs : \A fonts \in MatchCatalogs :
    Looked(proc[p]) /\ BuiltFrom(proc[p], fonts) =>
      EarliestTierAnswer(proc[p].resolveLog[1], fonts, CatalogAnswer(proc[p]))

\* the same, for catalogs whose display names have no outer whitespace
C17_EarliestTierWinsTrimmed ==
  \A p \in Procs : \A fonts \in MatchCatalogs :
    /\ Looked(proc[p]) /\ BuiltFrom(proc[p], fonts)
    /\ \A i \in 1..Len(fonts) : trim(fonts[i].name) = fonts[i].name
    =>
      EarliestTierAnswer(proc[p].resolveLog[1], fonts, CatalogAnswer(proc[p]))


\* C18: a catalog entry is returned on the strength of substring
\* containment only when both compared names have at least 4 characters;
\* a family whose normalized name is shorter than 4 characters gets an
\* entry only by an equality tier, never one that merely contains it.
C18_NoShortSubstringMatch ==
  \A p \in Procs : \A fonts \in MatchCatalogs :
    Looked(proc[p]) /\ BuiltFrom(proc[p], fonts) =>
      LET family == proc[p].resolveLog[1]
          answer == CatalogAnswer(proc[p])
      IN answer # "undefined" =>
           \E i \in 1..Len(fonts) :
             /\ fonts[i].ref = answer
             /\ \/ (\E t \in 1..3 : TierHit(t, family, fonts[i].name))
                \/ (\E t \in 4..5 : TierHit(t, family, fonts[i].name))
             /\ Len(norm(family)) < 4 => (\E t \in 1..3 : TierHit(t, family, fonts[i].name))

\* "Go" has been looked up in a catalog holding "Gotham" and nothing was
\* returned: the user is asked
C18_Witness ==
  \E p \in Procs : \E fonts \in MatchCatalogs :
    /\ Looked(proc[p]) /\ BuiltFrom(proc[p], fonts)
    /\ proc[p].resolveLog[1] = FontNames.Go
    /\ \E i \in 1..Len(fonts) :
         fonts[i].name = FontNames.Gotham /\ includes(norm(fonts[i].name), norm(FontNames.Go))
    /\ CatalogAnswer(proc[p]) = "undefined"
    /\ proc[p].pc = "ask" /\ pendingFontName = FontNames.Go


(***************************************************************************)
(* Masks                                                                   *)
(***************************************************************************)
\* contentFileName || fileName
ContentFileOf(o) == IF o.contentFileName # "" THEN o.contentFileName ELSE o.fileName

\* a mask whose shape can be synthesized and whose content was uploaded
FramedMask(r, o) ==
  /\ o.type = "clipMask"
  /\ MapHas(r.imageRefs, ContentFileOf(o))
  /\ generateShapePath(o.clipShape, o.width, o.height, o.unit) # << >>

\* its stroke image was uploaded and it has stroke bounds
HasEffects(r, o) ==
  /\ o.strokeFileName # "" /\ MapHas(r.imageRefs, o.strokeFileName)
  /\ o.strokeBounds # << >>

Geometry(e) == <<e.left, e.top, e.width, e.height>>

Bounds(b) == <<b.x, b.y, b.width, b.height>>

\* C19: a mask with a synthesizable shape, an uploaded content and stroke
\* asset and stroke bounds sb is emitted as one group at (sb.x, sb.y,
\* sb.width, sb.height) with two children: the stroke image at (0, 0,
\* sb.width, sb.height) and the frame at (obj.x - sb.x, obj.y - sb.y) with
\* the mask's width and height; a 200x200 mask at the origin with bounds
\* (-10,-10,220,220) gives a group at (-10,-10,220,220), a stroke image at
\* (0,0,220,220) and a frame at (10,10,200,200).
C19_GroupGeometry ==
  \A p \in Procs :
    LET r == proc[p]
    IN \A k \in 1..Compiled(r) :
         LET o == r.sorted[k]
         IN FramedMask(r, o) /\ HasEffects(r, o) =>
              LET sb == o.strokeBounds[1]
                  g  == ElementOf(r, k)
              IN /\ Len(EmittedFor(r, k)) = 1
                 /\ g.type = "group"
                 /\ Geometry(g) = Bounds(sb)
                 /\ Len(g.children) = 2
                 /\ g.children[1].type = "image"
                 /\ g.children[1].ref = ImageRefOf(o.strokeFileName)
                 /\ Geometry(g.children[1]) = <<0, 0, sb.width, sb.height>>
                 /\ g.children[2].type = "shape"
                 /\ g.children[2].ref = ImageRefOf(ContentFileOf(o))
                 /\ g.children[2].d = generateShapePath(o.clipShape, o.width, o.height, o.unit)
                 /\ Geometry(g.children[2]) =
                      <<o.x - sb.x, o.y - sb.y, o.width, o.height>>
                 /\ ( /\ Bounds(o) = <<0, 0, 200, 200>>
                      /\ Bounds(sb) = <<-10, -10, 220, 220>>
                      => /\ Geometry(g) = <<-10, -10, 220, 220>>
                         /\ Geometry(g.children[1]) = <<0, 0, 220, 220>>
                         /\ Geometry(g.children[2]) = <<10, 10, 200, 200>> )

\* the 200x200 ellipse mask at the origin has been compiled to its group
C19_Witness ==
  \E p \in Procs :
    LET r == proc[p]
    IN /\ r.pc = "addPage" /\ Len(r.sorted) = 1 /\ Len(r.elements) = 1
       /\ FramedMask(r, r.sorted[1]) /\ HasEffects(r, r.sorted[1])
       /\ r.sorted[1].clipShape[1].type = "ellipse"
       /\ <<r.sorted[1].x, r.sorted[1].y>> = <<0, 0>>
       /\ Bounds(r.sorted[1].strokeBounds[1]) = <<-10, -10, 220, 220>>
       /\ r.elements[1].type = "group"
       /\ Geometry(r.elements[1].children[2]) = <<10, 10, 200, 200>>


\* the clip shape is absent or of a type no path is synthesized for
UnknownShape(o) == o.clipShape = << >> \/ o.clipShape[1].type \notin {"ellipse", "rect"}

\* the iteration of the element loop that thread p is taking, on a mask
MaskIteration(p) ==
  /\ proc[p].pc = "compile" /\ proc[p].obj <= Len(proc[p].sorted)
  /\ proc'[p].obj = proc[p].obj + 1
  /\ proc[p].sorted[proc[p].obj].type = "clipMask"

\* the iteration left the element sequence, the counter and the opacity
\* assignments as they were
IterationSkipped(p) ==
  /\ proc'[p].elements = proc[p].elements
  /\ proc'[p].elementIdx = proc[p].elementIdx
  /\ proc'[p].opacityMap = proc[p].opacityMap

\* the iteration pushed the one element e and counted it
IterationPushed(p, e) ==
  /\ proc'[p].elements = Append(proc[p].elements, e)
  /\ proc'[p].elementIdx = proc[p].elementIdx + 1

\* C20: the iteration on a mask whose content reference (contentFileName,
\* else fileName) is missing changes neither the elements nor the counter;
\* with the content present and a clip shape unknown or absent it pushes
\* no shape but a plain image of the object's own file at the mask's
\* geometry, or, when that file has no reference either, changes neither
\* the elements nor the counter.
C20_MaskSkipAndFallback ==
  [][\A p \in Procs :
       MaskIteration(p) =>
         LET r == proc[p]
             o == r.sorted[r.obj]
         IN /\ ~MapHas(r.imageRefs, ContentFileOf(o)) => IterationSkipped(p)
            /\ MapHas(r.imageRefs, ContentFileOf(o)) /\ UnknownShape(o) =>
                 IF MapHas(r.imageRefs, o.fileName)
                 THEN IterationPushed(p, [type |-> "image", ref |-> ImageRefOf(o.fileName),
                                          top |-> o.y, left |-> o.x,
                                          width |-> o.width, height |-> o.height])
                 ELSE IterationSkipped(p)
            /\ MapHas(r.imageRefs, ContentFileOf(o)) /\ ~UnknownShape(o) =>
                 /\ Len(proc'[p].elements) = Len(r.elements) + 1
                 /\ Last(proc'[p].elements).type \in {"shape", "group"}]_vars

\* a mask of unknown shape whose content was uploaded but whose own file
\* was not has been skipped, and the mask without clipShape after it has
\* become a plain image, the first element, with the first assignment
C20_Witness ==
  \E p \in Procs :
    LET r == proc[p]
    IN /\ r.pc = "addPage" /\ Len(r.sorted) = 2
       /\ r.sorted[1].type = "clipMask" /\ r.sorted[1].clipShape # << >>
       /\ r.sorted[1].clipShape[1].type = "unknown"
       /\ MapHas(r.imageRefs, ContentFileOf(r.sorted[1]))
       /\ ~MapHas(r.imageRefs, r.sorted[1].fileName)
       /\ r.sorted[2].type = "clipMask" /\ r.sorted[2].clipShape = << >>
       /\ r.elements = << [type |-> "image", ref |-> ImageRefOf("f.png"),
                            top |-> r.sorted[2].y, left |-> r.sorted[2].x,
                            width |-> r.sorted[2].width, height |-> r.sorted[2].height] >>
       /\ r.elementIdx = 1
       /\ r.opacityMap = <<[elementIndex |-> 0, opacity |-> 50]>>


(***************************************************************************)
(* Shape paths                                                             *)
(***************************************************************************)
\* the numbers of move, line, cubic-bezier and close commands of a path
C21_Counts(d) ==
  LET N(c) == Cardinality({i \in 1..Len(d) : d[i].cmd = c})
  IN <<N("M"), N("L"), N("C"), N("Z")>>

\* the k-th object of import r is a mask without stroke that became a frame
C21_FrameOnly(r, k) ==
  /\ k \in 1..Compiled(r)
  /\ FramedMask(r, r.sorted[k]) /\ r.sorted[k].strokeFileName = ""

\* C21, as stated: every rect path with 2 * cornerRadius <= min(w, h) has
\* one move, 4 lines, 4 cubic beziers and one close
C21_EveryRectHasFourCorners ==
  \A p \in Procs : \A k \in 1..Len(proc[p].sorted) :
    LET r == proc[p]
        o == r.sorted[k]
    IN C21_FrameOnly(r, k) /\ o.clipShape[1].type = "rect"
       /\ 2 * o.clipShape[1].cornerRadius <= Min(o.width, o.height)
       => C21_Counts(ElementOf(r, k).d) = <<1, 4, 4, 1>>

\* C21: the path of a rect with a corner radius above 0 (clamped or not)
\* has exactly one move, 4 lines, 4 cubic beziers and one close; with a
\* radius of 0 or below, or none, it has one move, 3 lines, no bezier and
\* one close; the path of an ellipse has one move, 4 cubic beziers and one
\* close; every path begins with the move, ends with the close and has no
\* other command.
C21_PathShape ==
  \A p \in Procs : \A k \in 1..Len(proc[p].sorted) :
    LET r == proc[p]
        o == r.sorted[k]
        d == ElementOf(r, k).d
    IN C21_FrameOnly(r, k) =>
         /\ d[1].cmd = "M" /\ Last(d).cmd = "Z"
         /\ \A i \in 1..Len(d) : d[i].cmd \in {"M", "L", "C", "Z"}
         /\ C21_Counts(d) =
              IF o.clipShape[1].type = "ellipse" THEN <<1, 0, 4, 1>>
              ELSE IF o.clipShape[1].cornerRadius > 0 THEN <<1, 4, 4, 1>>
              ELSE <<1, 3, 0, 1>>

\* a rect of 200x100 with the radius 50, half its shorter side, has been
\* compiled to a path with 4 lines and 4 beziers
C21_Witness ==
  \E p \in Procs :
    LET r == proc[p]
    IN /\ r.pc = "addPage" /\ C21_FrameOnly(r, 1)
       /\ r.sorted[1].clipShape[1] = [type |-> "rect", cornerRadius |-> 50]
       /\ <<r.sorted[1].width, r.sorted[1].height>> = <<200, 100>>
       /\ C21_Counts(r.elements[1].d) = <<1, 4, 4, 1>>


\* the coordinates of a path, each with the side it is measured along: the
\* width for an x, the height for a y (arguments come in x, y pairs)
C22_Coordinates(d, w, h) ==
  UNION { { <<d[i].args[j], IF j % 2 = 1 THEN w ELSE h>> : j \in 1..Len(d[i].args) } :
            i \in 1..Len(d) }

C23_SessionApplied(p) ==
  /\ proc[p].pc = "openDesign" /\ proc'[p].pc = "complete"
  /\ ~proc'[p].manual
  /\ proc'[p].page[1].type = "absolute" /\ ~proc'[p].page[1].locked

\* C23: when a session on an editable page ends with its sync, every
\* element of the page that an assignment points at and that is supported
\* and unlocked has the transparency 1 - opacity of that assignment (in
\* percent: 100 - opacity); every other element, and every locked or
\* unsupported element an assignment points at, has the transparency it
\* had; an assignment whose index is beyond the page changes nothing; and
\* this was the import's one session.
C23_TransparencyPerElement ==
  [][\A p \in Procs :
       C23_SessionApplied(p) =>
         LET before == proc[p].page[1].elements
             after  == proc'[p].page[1].elements
             m      == proc[p].opacityMap
         IN /\ proc'[p].sessions = 1 /\ proc'[p].opacityMap = m
            /\ Len(after) <= Len(before)
            /\ \A i \in 1..Len(after) :
                 LET aimed == {j \in 1..Len(m) : m[j].elementIndex = i - 1}
                 IN IF aimed # {} /\ after[i].type # "unsupported" /\ ~after[i].locked
                    THEN \E j \in aimed : after[i].transparency = 100 - m[j].opacity
                    ELSE after[i].transparency = before[i].transparency]_vars

\* a session has ended on a page of two elements with two assignments: the
\* first element, which was locked, has kept its transparency and the
\* second one has the transparency of its assignment
C23_Witness ==
  \E p \in Procs :
    LET r == proc[p]
    IN /\ r.pc = "complete" /\ ~r.manual /\ r.sessions = 1
       /\ Len(r.page[1].elements) = 2 /\ Len(r.opacityMap) = 2
       /\ r.opacityMap[1].elementIndex = 0 /\ r.opacityMap[1].opacity < 100
       /\ r.page[1].elements[1].locked
       /\ r.page[1].elements[1].transparency = 0
       /\ r.opacityMap[2].elementIndex = 1
       /\ r.page[1].elements[2].transparency = 100 - r.opacityMap[2].opacity
       /\ r.page[1].elements[2].transparency > 0


(***************************************************************************)
(* The text branch                                                         *)
(***************************************************************************)
\* the pre-rendered image of the text object was uploaded
C24_TextImageUploaded(r, o) ==
  o.textSvgFileName # "" /\ MapHas(r.imageRefs, o.textSvgFileName)

\* the element is an editable text with the object's content
C24_IsEditableText(e, o) ==
  e.type = "text" /\ e.children = <<o.textData[1].content>>

\* the element is the pre-rendered image at the object's geometry
C24_IsTextImage(e, o) ==
  e = [type |-> "image", ref |-> ImageRefOf(o.textSvgFileName),
       top |-> o.y, left |-> o.x, width |-> o.width, height |-> o.height]

\* C24, as stated: a text whose family resolved to a font reference is an
\* editable text with that reference; one whose family resolved to
\* "use_svg" and whose image was uploaded is that image; any other is an
\* editable text without font reference
C24_ImageOnlyForSentinel ==
  \A p \in Procs : \A k \in 1..Compiled(proc[p]) :
    LET r  == proc[p]
        o  == r.sorted[k]
        e  == ElementOf(r, k)
        fr == MapGet(r.resolvedFonts, FamilyOf(r, k))
    IN IsText(r, k) =>
         IF fr \notin {"undefined", "use_svg"}
         THEN C24_IsEditableText(e, o) /\ e.fontRef = fr
         ELSE IF fr = "use_svg" /\ C24_TextImageUploaded(r, o)
         THEN C24_IsTextImage(e, o)
         ELSE C24_IsEditableText(e, o) /\ "fontRef" \notin DOMAIN e

\* C24: a text whose family resolved to a font reference is an editable
\* text with that reference, whether or not its pre-rendered image was
\* uploaded; one whose family did not (it resolved to "use_svg", or it is
\* empty and was never resolved) and whose image was uploaded is that
\* image, not editable, at the object's geometry; any other is an
\* editable text without font reference.
C24_TextBranch ==
  \A p \in Procs : \A k \in 1..Compiled(proc[p]) :
    LET r  == proc[p]
        o  == r.sorted[k]
        e  == ElementOf(r, k)
        fr == MapGet(r.resolvedFonts, FamilyOf(r, k))
    IN IsText(r, k) =>
         /\ fr = "undefined" <=> FamilyOf(r, k) = << >>
         /\ IF fr \notin {"undefined", "use_svg"}
            THEN C24_IsEditableText(e, o) /\ e.fontRef = fr
            ELSE IF C24_TextImageUploaded(r, o)
            THEN C24_IsTextImage(e, o)
            ELSE C24_IsEditableText(e, o) /\ "fontRef" \notin DOMAIN e

\* a text whose family the user gave a font and whose pre-rendered image
\* was uploaded has become an editable text with that font
C24_Witness ==
  \E p \in Procs :
    LET r == proc[p]
    IN /\ r.pc = "addPage" /\ Len(r.sorted) = 1 /\ IsText(r, 1)
       /\ MapGet(r.resolvedFonts, FamilyOf(r, 1)) = "font:Lato"
       /\ C24_TextImageUploaded(r, r.sorted[1])
       /\ Len(r.elements) = 1 /\ C24_IsEditableText(r.elements[1], r.sorted[1])
       /\ r.elements[1].fontRef = "font:Lato"


(***************************************************************************)
(* Opacity assignments                                                     *)
(***************************************************************************)
\* C25: once the element loop has ended, opacityMap holds exactly one
\* assignment for each emitted object with an opacity below 1 (100 here,
\* in percent), with that opacity and the index of the object's element,
\* in the order of emission; so none for a skipped object and none for an
\* object whose opacity is 1 or more or absent.
C25_AssignmentsExact ==
  \A p \in Procs :
    LET r == proc[p]
        m == r.opacityMap
        n == Len(r.sorted)
        Dim(k) == /\ EmittedFor(r, k) # << >> /\ r.sorted[k].opacity # << >>
                  /\ r.sorted[k].opacity[1] < 100
    IN r.pc \in {"addPage", "backoff", "created"} =>
         /\ Compiled(r) = n
         /\ Len(m) = Cardinality({k \in 1..n : Dim(k)})
         /\ \A j1, j2 \in 1..Len(m) : j1 < j2 => m[j1].elementIndex < m[j2].elementIndex
         /\ \A k \in 1..n :
              Dim(k) <=> \E j \in 1..Len(m) :
                           /\ EmittedFor(r, k) # << >>
                           /\ m[j].elementIndex = EmittedBefore(r, k)
                           /\ r.sorted[k].opacity # << >>
                           /\ m[j].opacity = r.sorted[k].opacity[1]
         /\ \A j \in 1..Len(m) :
              /\ m[j].elementIndex < Len(r.elements) /\ m[j].opacity < 100
              /\ \E k \in 1..n : Dim(k) /\ m[j].elementIndex = EmittedBefore(r, k)

\* three objects have been compiled: the first was skipped, the second,
\* of opacity 1, and the third, of opacity 0.5, were emitted, and the one
\* assignment is that of the third, at element 1
C25_Witness ==
  \E p \in Procs :
    LET r == proc[p]
    IN /\ r.pc = "addPage" /\ Len(r.sorted) = 3
       /\ EmittedFor(r, 1) = << >>
       /\ EmittedFor(r, 2) # << >> /\ r.sorted[2].opacity = <<100>>
       /\ EmittedFor(r, 3) # << >> /\ r.sorted[3].opacity = <<50>>
       /\ r.opacityMap = <<[elementIndex |-> 1, opacity |-> 50]>>

(***************************************************************************)
(* C26                                                                     *)
(***************************************************************************)
\* the import of slot p failed at addPage as artboard k of an import-all run
C26_FatalInRun(p, k) ==
  /\ proc[p].pc = "catch" /\ proc[p].mode = "all" /\ proc[p].layoutIndex = k

\* the import-all run of slot p has started artboard k
C26_StartedInRun(p, k) ==
  /\ proc[p].mode = "all" /\ proc[p].layoutIndex = k
  /\ proc[p].pc \in {"upload", "fonts"}

\* C26: an import reaches its catch only from an addPage call that failed
\* with another error than a rate limit or with a rate limit at the fifth
\* attempt; it has no page and has opened no editing session; its next
\* step leaves the status of an error and isImporting false; in an
\* import-all run that step returns to the loop of handleImportAll, which
\* keeps its layouts and its position, the pause then starts the next
\* artboard of those layouts, and when every timer fires and the host
\* answers every call the run goes on to start each remaining artboard and
\* to reach its end
C26_FatalAbortsOneArtboard ==
  /\ [](\A p \in Procs :
         proc[p].pc = "catch" =>
           LET r == proc[p]
           IN /\ r.sessions = 0 /\ r.page = << >> /\ r.instructions = << >>
              /\ Len(r.outcomes) = r.att
              /\ r.outcomes[r.att] # "ok"
              /\ r.outcomes[r.att] = "rate_limited" => r.att = MaxAttempts
              /\ \A a \in 1..(r.att - 1) : r.outcomes[a] = "rate_limited")
  /\ [][\A p \in Procs :
         LET r == proc[p]
             n == Len(r.layouts)
         IN /\ r.pc = "catch" /\ proc'[p] # r =>
                 /\ status' = "error" /\ ~isImporting'
                 /\ r.mode = "single" => proc'[p] = IdleProc
                 /\ r.mode = "all" =>
                      /\ proc'[p].pc = IF r.layoutIndex < n THEN "allPause" ELSE "allEnd"
                      /\ proc'[p].mode = "all" /\ proc'[p].layouts = r.layouts
                      /\ proc'[p].layoutIndex = r.layoutIndex
            /\ r.pc = "allPause" /\ proc'[p] # r =>
                 /\ proc'[p].mode = "all" /\ proc'[p].pc \in {"upload", "fonts"}
                 /\ proc'[p].layoutIndex = r.layoutIndex + 1
                 /\ proc'[p].layouts = r.layouts
                 /\ proc'[p].sorted = SortObjects(r.layouts[r.layoutIndex + 1].objects)
                 /\ selectedLayoutIndex' = r.layoutIndex + 1
            /\ r.mode = "all" /\ proc'[p].mode = "all" =>
                 proc'[p].layoutIndex \in {r.layoutIndex, r.layoutIndex + 1}]_vars
  /\ \A k \in 1..(Len(AllLayouts) - 1) :
       (\E p \in Procs : C26_FatalInRun(p, k)) ~> (\E p \in Procs : C26_StartedInRun(p, k + 1))
  /\ (\E p \in Procs : \E k \in 1..Len(AllLayouts) : C26_FatalInRun(p, k))
       ~> (\E p \in Procs : proc[p].pc = "allEnd" /\ proc[p].layoutIndex = Len(AllLayouts))

\* the second artboard of an import-all run has failed at addPage, no other
\* import was clicked, and the run pauses before the third artboard with
\* the status of an error and isImporting false
C26_Witness ==
  \E p \in Procs :
    /\ proc[p].pc = "allPause" /\ proc[p].layoutIndex = 2
    /\ Len(proc[p].layouts) = 3
    /\ budget.imports = 1
    /\ status = "error" /\ ~isImporting

(***************************************************************************)
(* C27                                                                     *)
(***************************************************************************)
\* C27: the pending resolver is cleared only by the handler that delivers
\* its decision: at every step that sets pendingFontResolve to null, the
\* import that was waiting on it leaves askUserForFont with the decision
\* for the family it asked about, so no import is left waiting in
\* askUserForFont with no resolver pending
C27_ClearedOnlyOnDelivery ==
  [][pendingFontResolve # 0 /\ pendingFontResolve' = 0 =>
       LET p == pendingFontResolve
       IN /\ proc[p].pc = "ask" /\ proc'[p].pc = "fonts"
          /\ proc'[p].fontQueue = Tail(proc[p].fontQueue)
          /\ MapHas(proc'[p].resolvedFonts, Head(proc[p].fontQueue))]_vars

(***************************************************************************)
(* C28                                                                     *)
(***************************************************************************)
\* C28: at every point of an import, each asset reference an element
\* carries (the ref of an image, the fill of a frame, the refs of the
\* stroke image and the frame of a group) is the answer of a successful
\* uploadFile call this import made, and this import has called uploadFile
\* at most once for each file name, every call being for a name some
\* object refers to and the folder holds
C28_UploadedHereOnce ==
  \A p \in Procs :
    LET r == proc[p]
        u == r.uploads
    IN /\ \A i \in 1..Len(r.elements) : \A ref \in RefsOf(r.elements[i]) :
            \E j \in 1..Len(u) : u[j].ref = <<ref>>
       /\ \A j1, j2 \in 1..Len(u) : j1 # j2 => u[j1].fname # u[j2].fname
       /\ \A j \in 1..Len(u) :
            /\ u[j].fname \in files
            /\ \E k \in 1..Len(r.sorted) :
                 \E x \in 1..Len(ObjectUploads(r.sorted[k])) :
                   ObjectUploads(r.sorted[k])[x] = u[j].fname
       /\ r.pc \in AfterUpload =>
            \A k \in 1..Len(r.sorted) : \A x \in 1..Len(ObjectUploads(r.sorted[k])) :
              LET fname == ObjectUploads(r.sorted[k])[x]
              IN fname \in files => \E j \in 1..Len(u) : u[j].fname = fname

\* two objects of the artboard refer to the same file, both were emitted
\* with its reference, the elements are about to be submitted, and the
\* file was uploaded once, with success
C28_Witness ==
  \E p \in Procs :
    LET r == proc[p]
        u == r.uploads
    IN /\ r.pc = "addPage" /\ Len(r.sorted) = 2
       /\ r.sorted[1].type = "clipMask" /\ r.sorted[2].type = "clipMask"
       /\ r.sorted[1].strokeFileName = r.sorted[2].strokeFileName
       /\ r.sorted[1].strokeFileName # ""
       /\ Len(r.elements) = 2
       /\ \A i \in 1..2 : ImageRefOf(r.sorted[1].strokeFileName) \in RefsOf(r.elements[i])
       /\ Cardinality({j \in 1..Len(u) : u[j].fname = r.sorted[1].strokeFileName}) = 1
       /\ \E j \in 1..Len(u) : u[j].ref = <<ImageRefOf(r.sorted[1].strokeFileName)>>
       /\ \E j \in 1..Len(u) : u[j].ref = << >>

====
